---- MODULE Spec2Model ----
(***************************************************************************)
(* A model of the fetch storage vault (src-tauri/src/main.rs and           *)
(* src-tauri/src/storage.rs): the session (storage + crypto engine), the   *)
(* persistent brute-force lockout, master-key rotation and the session's   *)
(* two locks.                                                               *)
(*                                                                         *)
(* Spec      the command handlers over the vault's data. A handler runs    *)
(*           under the storage lock and is one action; update_master_key   *)
(*           is a sequence of steps (one per write it makes) so that an    *)
(*           I/O error between two writes is a behaviour of the model, and *)
(*           export_decrypted_vault is two actions because it gives up the *)
(*           storage lock between its verification and its read.           *)
(*           The commands are called with one master passphrase at        *)
(*           initialization and one new passphrase at rotation.           *)
(* LimiterSpec  the commands that read or write the failed-attempt         *)
(*           counter, under every configuration and passphrase.            *)
(* LockSpec  the handlers as sequences of lock operations run by threads.  *)
(*                                                                         *)
(* Encodings. Option<T>: None is {} and Some(x) is {x}. A String is a      *)
(* sequence ("" is <<>>); names are sequences of character codes. Time is  *)
(* in milliseconds. A ciphertext is [k |-> key, pt |-> plaintext]: it      *)
(* decrypts under k and under no other key.                                *)
(***************************************************************************)
EXTENDS Integers, Sequences, FiniteSets, TLC

VARIABLES
    salt,         \* the file vault/salt: Option<salt>
    verify,       \* the file vault/verify: Option<ciphertext>
    meta,         \* the table vault_meta: key -> Option<String>
    rows,         \* the table vault_items, in rowid order
    files,        \* the directory vault/data: file name -> ciphertext
    crypto,       \* VaultState.crypto, the session's primary engine
    now,          \* the wall clock, Utc::now()
    uuids,        \* how many Uuid::new_v4() values have been drawn
    salts,        \* how many Crypto::generate_salt() values have been drawn
    master,       \* history: the passphrase of the last initialize / completed rotation
    streak,       \* history: wrong unlock attempts since the counter was last reset, and
                  \* whether the most recent lockout check cleared an expired lockout
    ret,          \* the last command and what it returned
    rot,          \* update_master_key in progress: its locals and position
    exp,          \* export_decrypted_vault between its two lock scopes: Option<key>
    storageLock,  \* VaultState.storage (Mutex): 0 when free, else the owning thread
    cryptoLock,   \* VaultState.crypto (Mutex): 0 when free, else the owning thread
    thr           \* per thread: the handler it runs and its position in it

dataVars == <<salt, verify, meta, rows, files, crypto, now, uuids, salts, master, streak, ret, rot, exp>>
lockVars == <<storageLock, cryptoLock, thr>>
vars == <<salt, verify, meta, rows, files, crypto, now, uuids, salts, master, streak, ret, rot, exp, storageLock, cryptoLock, thr>>

(***************************************************************************)
(* Bounds of the model.                                                    *)
(***************************************************************************)
MaxMinutes == 1
SubSecond == 500
MaxSalts == 2
MaxItems == 1
MaxFailed == 2
NumThreads == 2

(***************************************************************************)
(* Program constants.                                                      *)
(***************************************************************************)
MsPerSecond == 1000
SecondsPerMinute == 60
DefaultMaxAttempts == 5
DefaultLockoutMinutes == 5

None == {}
Some(x) == {x}
Unwrap(o) == CHOOSE x \in o : TRUE

Passphrases == {"pw1", "pw2"}
StrengthArgs == {None, Some("Fast")}
DefaultStrength == "Recommended"

MsPerMinute == SecondsPerMinute * MsPerSecond
\* The instants the clock is observed at: every minute boundary, and a fraction
\* of a second before it.
Instants ==
    {m * MsPerMinute : m \in 0..MaxMinutes} \cup {m * MsPerMinute - SubSecond : m \in 1..MaxMinutes}

(***************************************************************************)
(* Crypto (crate::crypto).                                                 *)
(***************************************************************************)
DeriveKey(passphrase, s, strength) == <<passphrase, s, strength>>
CryptoNew == [key |-> None]
CryptoUnlock(key) == [key |-> Some(key)]
CryptoLock == [key |-> None]
IsUnlocked(c) == c.key # None
Encrypt(c, plaintext) == [k |-> Unwrap(c.key), pt |-> plaintext]
DecryptOk(c, ct) == IsUnlocked(c) /\ c.key = Some(ct.k)
Decrypt(c, ct) == ct.pt
VerificationToken == "fetch-verification-token"

(***************************************************************************)
(* Storage: the settings table vault_meta.                                 *)
(***************************************************************************)
MetaKeys == {"kdf_strength", "brute_force_config", "failed_login_attempts", "last_failed_attempt_timestamp"}
EmptyMeta == [k \in MetaKeys |-> None]
GetMetaValue(m, key) == m[key]
SetMetaValue(m, key, value) == [m EXCEPT ![key] = Some(value)]

\* to_string / parse and to_rfc3339 / parse: the text of a value is the
\* one-element sequence holding it, and "" is the empty sequence.
ToText(v) == <<v>>
ParseText(s) == s[1]

GetKeyDerivationStrength(m) ==
    LET s == GetMetaValue(m, "kdf_strength") IN
    IF s = Some("Fast") THEN "Fast"
    ELSE IF s = Some("Paranoid") THEN "Paranoid"
    ELSE "Recommended"
SetKeyDerivationStrength(m, strength) == SetMetaValue(m, "kdf_strength", strength)

BruteForceConfigDefault == [enabled |-> TRUE, max_attempts |-> DefaultMaxAttempts, lockout_duration_minutes |-> DefaultLockoutMinutes]
GetBruteForceConfig(m) ==
    LET j == GetMetaValue(m, "brute_force_config") IN
    IF j # None THEN ParseText(Unwrap(j)) ELSE BruteForceConfigDefault
SetBruteForceConfigValue(m, config) == SetMetaValue(m, "brute_force_config", ToText(config))

GetFailedLoginAttempts(m) ==
    LET s == GetMetaValue(m, "failed_login_attempts") IN
    IF s # None THEN ParseText(Unwrap(s)) ELSE 0
SetFailedLoginAttempts(m, attempts) == SetMetaValue(m, "failed_login_attempts", ToText(attempts))

GetLastFailedAttemptTimestamp(m) ==
    LET s == GetMetaValue(m, "last_failed_attempt_timestamp") IN
    IF s # None
    THEN (IF Unwrap(s) = <<>> THEN None ELSE Some(ParseText(Unwrap(s))))
    ELSE None
SetLastFailedAttemptTimestamp(m, timestamp) ==
    SetMetaValue(m, "last_failed_attempt_timestamp", IF timestamp = None THEN <<>> ELSE ToText(Unwrap(timestamp)))

IsInitialized == salt # None /\ verify # None

\* Storage::initialize, given the meta table it starts from.
StorageInitializeMeta(m, strength) ==
    SetLastFailedAttemptTimestamp(
        SetFailedLoginAttempts(
            SetBruteForceConfigValue(SetKeyDerivationStrength(m, strength), BruteForceConfigDefault),
            0),
        None)

(***************************************************************************)
(* PersistentRateLimiter.                                                  *)
(***************************************************************************)
LockoutStatus(locked, remaining, failed, config) ==
    [is_locked_out |-> locked, remaining_seconds |-> remaining, failed_attempts |-> failed,
     max_attempts |-> config.max_attempts, lockout_duration_minutes |-> config.lockout_duration_minutes]

\* chrono: Duration::minutes(n), and Duration::num_seconds, which truncates.
DurationMinutes(n) == n * MsPerMinute
NumSeconds(d) == IF d >= 0 THEN d \div MsPerSecond ELSE 0 - ((0 - d) \div MsPerSecond)
Max(a, b) == IF a >= b THEN a ELSE b

\* The end of the lockout with the configured minutes taken as seconds.
LockoutEndInSeconds(last_failed, config) == last_failed + config.lockout_duration_minutes * MsPerSecond

LockoutEnd(last_failed, config) == last_failed + DurationMinutes(config.lockout_duration_minutes)

\* check_and_update_lockout that, on an expired lockout, resets the counter but keeps the timestamp.
CheckAndUpdateLockoutKeepingTimestamp(m, t) ==
    LET config == GetBruteForceConfig(m)
        failed_attempts == GetFailedLoginAttempts(m)
        last_failed_timestamp == GetLastFailedAttemptTimestamp(m)
    IN  IF ~config.enabled
        THEN [status |-> LockoutStatus(FALSE, 0, failed_attempts, config), meta |-> m]
        ELSE IF failed_attempts >= config.max_attempts /\ last_failed_timestamp # None
        THEN LET lockout_end == LockoutEnd(Unwrap(last_failed_timestamp), config) IN
             IF t < lockout_end
             THEN [status |-> LockoutStatus(TRUE, Max(NumSeconds(lockout_end - t), 0), failed_attempts, config),
                   meta |-> m]
             ELSE LET cleared == SetFailedLoginAttempts(m, 0) IN
                  [status |-> LockoutStatus(FALSE, 0, GetFailedLoginAttempts(cleared), config), meta |-> cleared]
        ELSE [status |-> LockoutStatus(FALSE, 0, failed_attempts, config), meta |-> m]

\* check_and_update_lockout at time t: the status it returns and the meta table it leaves.
CheckAndUpdateLockout(m, t) ==
    LET config == GetBruteForceConfig(m)
        failed_attempts == GetFailedLoginAttempts(m)
        last_failed_timestamp == GetLastFailedAttemptTimestamp(m)
    IN  IF ~config.enabled
        THEN [status |-> LockoutStatus(FALSE, 0, failed_attempts, config), meta |-> m]
        ELSE IF failed_attempts >= config.max_attempts /\ last_failed_timestamp # None
        THEN LET lockout_end == LockoutEnd(Unwrap(last_failed_timestamp), config) IN
             IF t < lockout_end
             THEN [status |-> LockoutStatus(TRUE, Max(NumSeconds(lockout_end - t), 0), failed_attempts, config),
                   meta |-> m]
             ELSE LET cleared == SetLastFailedAttemptTimestamp(SetFailedLoginAttempts(m, 0), None) IN
                  [status |-> LockoutStatus(FALSE, 0, GetFailedLoginAttempts(cleared), config), meta |-> cleared]
        ELSE [status |-> LockoutStatus(FALSE, 0, failed_attempts, config), meta |-> m]

\* record_failed_attempt that counts the attempt and keeps the old timestamp.
RecordFailedAttemptKeepingTimestamp(m, t) == SetFailedLoginAttempts(m, GetFailedLoginAttempts(m) + 1)

RecordFailedAttempt(m, t) ==
    SetLastFailedAttemptTimestamp(SetFailedLoginAttempts(m, GetFailedLoginAttempts(m) + 1), Some(t))

\* reset_attempts that zeroes the counter and keeps the timestamp.
ResetAttemptsKeepingTimestamp(m) == SetFailedLoginAttempts(m, 0)

ResetAttempts(m) == SetLastFailedAttemptTimestamp(SetFailedLoginAttempts(m, 0), None)

(***************************************************************************)
(* Storage: the table vault_items and the payload files.                   *)
(***************************************************************************)
\* Character codes of the names the model uses.
ChA == 65
ChZ == 90
CaseOffset == 32
HttpsPrefix == <<104, 116, 116, 112, 115, 58, 47, 47>>
HttpPrefix == <<104, 116, 116, 112, 58, 47, 47>>
WwwPrefix == <<119, 119, 119, 46>>

\* str::replace(pat, ""): every non-overlapping occurrence, left to right.
RECURSIVE RemoveAll(_, _)
RemoveAll(s, pat) ==
    IF Len(s) < Len(pat) THEN s
    ELSE IF SubSeq(s, 1, Len(pat)) = pat THEN RemoveAll(SubSeq(s, Len(pat) + 1, Len(s)), pat)
    ELSE <<Head(s)>> \o RemoveAll(Tail(s), pat)

ToLowercase(s) == [i \in 1..Len(s) |-> IF s[i] >= ChA /\ s[i] <= ChZ THEN s[i] + CaseOffset ELSE s[i]]

CleanUrlForSorting(name) == ToLowercase(RemoveAll(RemoveAll(RemoveAll(name, HttpsPrefix), HttpPrefix), WwwPrefix))

\* String::cmp: -1, 0 or 1.
RECURSIVE StrCmp(_, _)
StrCmp(a, b) ==
    IF a = <<>> /\ b = <<>> THEN 0
    ELSE IF a = <<>> THEN -1
    ELSE IF b = <<>> THEN 1
    ELSE IF Head(a) < Head(b) THEN -1
    ELSE IF Head(a) > Head(b) THEN 1
    ELSE StrCmp(Tail(a), Tail(b))

\* The comparator of get_all_items_recursive: folders first, then the cleaned name.
RecursiveCmp(a, b) ==
    IF a.item_type = "folder" /\ b.item_type # "folder" THEN -1
    ELSE IF a.item_type # "folder" /\ b.item_type = "folder" THEN 1
    ELSE StrCmp(CleanUrlForSorting(a.name), CleanUrlForSorting(b.name))

\* slice::sort_by, a stable sort, under RecursiveCmp.
RECURSIVE InsertStable(_, _)
InsertStable(sorted, x) ==
    IF sorted = <<>> THEN <<x>>
    ELSE IF RecursiveCmp(x, Head(sorted)) < 0 THEN <<x>> \o sorted
    ELSE <<Head(sorted)>> \o InsertStable(Tail(sorted), x)
RECURSIVE SortRecursive(_)
SortRecursive(items) ==
    IF items = <<>> THEN <<>>
    ELSE InsertStable(SortRecursive(SubSeq(items, 1, Len(items) - 1)), items[Len(items)])

EncryptOpt(c, o) == IF o = None THEN None ELSE Some(Encrypt(c, Unwrap(o)))

\* The row add_item and update_item_fields write for an item under engine c.
EncryptItem(item, c) ==
    [id |-> item.id,
     parent_id |-> item.parent_id,
     name |-> Encrypt(c, item.name),
     item_type |-> Encrypt(c, item.item_type),
     data_path |-> Encrypt(c, item.data_path),
     folder_type |-> EncryptOpt(c, item.folder_type),
     tags |-> Encrypt(c, ToText(item.tags)),
     created_at |-> Encrypt(c, ToText(item.created_at)),
     updated_at |-> Encrypt(c, ToText(item.updated_at)),
     deleted_at |-> IF item.deleted_at = None THEN None ELSE Some(Encrypt(c, ToText(Unwrap(item.deleted_at)))),
     totp_secret |-> EncryptOpt(c, item.totp_secret)]

\* The keys the blobs of a row are encrypted under.
RowKeys(row) ==
    {row.name.k, row.item_type.k, row.data_path.k, row.tags.k, row.created_at.k, row.updated_at.k}
        \cup {ct.k : ct \in row.folder_type} \cup {ct.k : ct \in row.deleted_at} \cup {ct.k : ct \in row.totp_secret}

\* row_to_vault_item succeeds when every blob of the row decrypts under c.
RowDecryptOk(row, c) ==
    /\ DecryptOk(c, row.name) /\ DecryptOk(c, row.item_type) /\ DecryptOk(c, row.data_path)
    /\ \A ct \in row.folder_type : DecryptOk(c, ct)
    /\ DecryptOk(c, row.tags) /\ DecryptOk(c, row.created_at) /\ DecryptOk(c, row.updated_at)
    /\ \A ct \in row.deleted_at : DecryptOk(c, ct)
    /\ \A ct \in row.totp_secret : DecryptOk(c, ct)

RowToVaultItem(row, c) ==
    [id |-> row.id,
     parent_id |-> row.parent_id,
     name |-> Decrypt(c, row.name),
     item_type |-> Decrypt(c, row.item_type),
     data_path |-> Decrypt(c, row.data_path),
     folder_type |-> IF row.folder_type = None THEN None ELSE Some(Decrypt(c, Unwrap(row.folder_type))),
     tags |-> ParseText(Decrypt(c, row.tags)),
     created_at |-> ParseText(Decrypt(c, row.created_at)),
     updated_at |-> ParseText(Decrypt(c, row.updated_at)),
     deleted_at |-> IF row.deleted_at = None THEN None ELSE Some(ParseText(Decrypt(c, Unwrap(row.deleted_at)))),
     totp_secret |-> IF row.totp_secret = None THEN None ELSE Some(Decrypt(c, Unwrap(row.totp_secret)))]

AddItem(rs, item, c) == Append(rs, EncryptItem(item, c))

\* update_item_fields with the parameters of created_at and updated_at swapped.
UpdateItemFieldsSwappedStamps(rs, item, c) ==
    [i \in 1..Len(rs) |->
        IF rs[i].id = item.id
        THEN EncryptItem([item EXCEPT !.created_at = item.updated_at, !.updated_at = item.created_at], c)
        ELSE rs[i]]

UpdateItemFields(rs, item, c) ==
    [i \in 1..Len(rs) |-> IF rs[i].id = item.id THEN EncryptItem(item, c) ELSE rs[i]]

\* get_all_items_recursive: an error when some row does not decrypt under c.
GetAllItemsOk(rs, c) == \A i \in 1..Len(rs) : RowDecryptOk(rs[i], c)
GetAllItemsRecursive(rs, c) == SortRecursive([i \in 1..Len(rs) |-> RowToVaultItem(rs[i], c)])

WriteEncryptedFile(fs, data, file_name) == (file_name :> data) @@ fs
\* read_encrypted_file: "File not found", or the decryption error, or the plaintext.
ReadEncryptedFileOk(fs, file_name, c) == file_name \in DOMAIN fs /\ DecryptOk(c, fs[file_name])
ReadEncryptedFile(fs, file_name, c) == Decrypt(c, fs[file_name])
NoFiles == [f \in {} |-> None]

Uuid(n) == <<n>>

(***************************************************************************)
(* The session: initial state and what a command returns.                  *)
(***************************************************************************)
Threads == 1..NumThreads
Ret(op, res) == [op |-> op, res |-> res, val |-> None]
RetVal(op, res, v) == [op |-> op, res |-> res, val |-> Some(v)]
NoStreak == [n |-> 0, healed |-> FALSE]
RotIdle == [pc |-> "idle"]
ThreadIdle == [op |-> "none", path |-> <<>>, ip |-> 0]

DataInit ==
    /\ salt = None /\ verify = None /\ meta = EmptyMeta
    /\ rows = <<>> /\ files = NoFiles
    /\ crypto = CryptoNew
    /\ now = 0 /\ uuids = 0 /\ salts = 0
    /\ master = None /\ streak = NoStreak
    /\ ret = Ret("main", "Ok")
    /\ rot = RotIdle /\ exp = None

LockInit ==
    /\ storageLock = 0 /\ cryptoLock = 0
    /\ thr = [t \in Threads |-> ThreadIdle]

Init == DataInit /\ LockInit

\* No update_master_key holds the two locks.
Idle == rot.pc = "idle"

(***************************************************************************)
(* Commands of main.rs.                                                    *)
(***************************************************************************)
Tick ==
    /\ \E t \in Instants : t > now /\ now' = t
    /\ UNCHANGED <<salt, verify, meta, rows, files, crypto, uuids, salts, master, streak, ret, rot, exp>>

\* initialize_vault that does not look at is_initialized.
InitializeVaultOverwriting(master_key, strength_arg) ==
    LET strength == IF strength_arg = None THEN DefaultStrength ELSE Unwrap(strength_arg)
        unlocked == CryptoUnlock(DeriveKey(master_key, salts + 1, strength))
    IN  /\ Idle
        /\ salts < MaxSalts
        /\ salts' = salts + 1
        /\ salt' = Some(salts + 1)
        /\ meta' = StorageInitializeMeta(meta, strength)
        /\ crypto' = unlocked
        /\ verify' = Some(Encrypt(unlocked, VerificationToken))
        /\ master' = Some(master_key)
        /\ ret' = Ret("initialize_vault", "Ok")
        /\ streak' = NoStreak
        /\ UNCHANGED <<rows, files, now, uuids, rot, exp>>

InitializeVault(master_key, strength_arg) ==
    /\ Idle
    /\ IF IsInitialized
       THEN /\ ret' = Ret("initialize_vault", "VaultAlreadyInitialized")
            /\ UNCHANGED <<salt, verify, meta, crypto, salts, master>>
       ELSE LET strength == IF strength_arg = None THEN DefaultStrength ELSE Unwrap(strength_arg)
                new_salt == salts + 1
                derived_key == DeriveKey(master_key, new_salt, strength)
                unlocked == CryptoUnlock(derived_key)
            IN  /\ salts < MaxSalts
                /\ salts' = new_salt
                /\ salt' = Some(new_salt)
                /\ meta' = StorageInitializeMeta(meta, strength)
                /\ crypto' = unlocked
                /\ verify' = Some(Encrypt(unlocked, VerificationToken))
                /\ master' = Some(master_key)
                /\ ret' = Ret("initialize_vault", "Ok")
    /\ streak' = IF IsInitialized THEN streak ELSE NoStreak
    /\ UNCHANGED <<rows, files, now, uuids, rot, exp>>

\* unlock_vault that counts an attempt rejected for lockout as one more failed attempt.
UnlockOutcomeCountingRejected(master_key) ==
    LET chk == CheckAndUpdateLockout(meta, now) IN
    IF chk.status.is_locked_out
    THEN [ret |-> RetVal("unlock_vault", "InvalidInput", chk.status),
          meta |-> RecordFailedAttempt(chk.meta, now), crypto |-> crypto]
    ELSE IF salt = None \/ verify = None
    THEN [ret |-> Ret("unlock_vault", "Io"), meta |-> chk.meta, crypto |-> crypto]
    ELSE LET strength == GetKeyDerivationStrength(chk.meta)
             derived_key == DeriveKey(master_key, Unwrap(salt), strength)
             unlocked == CryptoUnlock(derived_key)
         IN  IF DecryptOk(unlocked, Unwrap(verify))
             THEN [ret |-> Ret("unlock_vault", "Ok"), meta |-> ResetAttempts(chk.meta), crypto |-> unlocked]
             ELSE [ret |-> Ret("unlock_vault", "InvalidMasterKey"),
                   meta |-> RecordFailedAttempt(chk.meta, now), crypto |-> CryptoLock]

\* unlock_vault: what it returns and the meta table and engine it leaves.
UnlockOutcome(master_key) ==
    LET chk == CheckAndUpdateLockout(meta, now) IN
    IF chk.status.is_locked_out
    THEN [ret |-> RetVal("unlock_vault", "InvalidInput", chk.status), meta |-> chk.meta, crypto |-> crypto]
    ELSE IF salt = None \/ verify = None
    THEN [ret |-> Ret("unlock_vault", "Io"), meta |-> chk.meta, crypto |-> crypto]
    ELSE LET strength == GetKeyDerivationStrength(chk.meta)
             derived_key == DeriveKey(master_key, Unwrap(salt), strength)
             unlocked == CryptoUnlock(derived_key)
         IN  IF DecryptOk(unlocked, Unwrap(verify))
             THEN [ret |-> Ret("unlock_vault", "Ok"), meta |-> ResetAttempts(chk.meta), crypto |-> unlocked]
             ELSE [ret |-> Ret("unlock_vault", "InvalidMasterKey"),
                   meta |-> RecordFailedAttempt(chk.meta, now), crypto |-> CryptoLock]

\* The lockout check at time t finds an expired lockout and clears it.
Cleared(m, t) == CheckAndUpdateLockout(m, t).meta # m

UnlockVault(master_key) ==
    /\ Idle
    /\ LET out == UnlockOutcome(master_key)
           cleared == Cleared(meta, now)
           since == IF cleared THEN 0 ELSE streak.n
       IN  /\ GetFailedLoginAttempts(out.meta) <= MaxFailed
           /\ ret' = out.ret
           /\ meta' = out.meta
           /\ crypto' = out.crypto
           /\ streak' = [n |-> IF out.ret.res = "InvalidMasterKey" THEN since + 1
                               ELSE IF out.ret.res = "Ok" THEN 0
                               ELSE since,
                         healed |-> cleared]
    /\ UNCHANGED <<salt, verify, rows, files, now, uuids, salts, master, rot, exp>>

LockVault ==
    /\ Idle
    /\ crypto' = CryptoLock
    /\ ret' = Ret("lock_vault", "Ok")
    /\ UNCHANGED <<salt, verify, meta, rows, files, now, uuids, salts, master, streak, rot, exp>>

GetLockoutStatus ==
    /\ Idle
    /\ LET chk == CheckAndUpdateLockout(meta, now) IN
       /\ meta' = chk.meta
       /\ ret' = RetVal("get_lockout_status", "Ok", chk.status)
    /\ streak' = [n |-> IF Cleared(meta, now) THEN 0 ELSE streak.n, healed |-> Cleared(meta, now)]
    /\ UNCHANGED <<salt, verify, rows, files, crypto, now, uuids, salts, master, rot, exp>>

BruteForceConfigs == [enabled : BOOLEAN, max_attempts : 1..MaxFailed, lockout_duration_minutes : 1..MaxMinutes]

\* set_brute_force_config that clears the counter and the timestamp whatever enabled is.
SetBruteForceConfigResetting(config) ==
    /\ Idle
    /\ meta' = SetLastFailedAttemptTimestamp(SetFailedLoginAttempts(SetBruteForceConfigValue(meta, config), 0), None)
    /\ ret' = Ret("set_brute_force_config", "Ok")
    /\ streak' = IF ~config.enabled THEN NoStreak ELSE streak
    /\ UNCHANGED <<salt, verify, rows, files, crypto, now, uuids, salts, master, rot, exp>>

SetBruteForceConfig(config) ==
    /\ Idle
    /\ meta' = IF ~config.enabled
               THEN SetLastFailedAttemptTimestamp(SetFailedLoginAttempts(SetBruteForceConfigValue(meta, config), 0), None)
               ELSE SetBruteForceConfigValue(meta, config)
    /\ ret' = Ret("set_brute_force_config", "Ok")
    /\ streak' = IF ~config.enabled THEN NoStreak ELSE streak
    /\ UNCHANGED <<salt, verify, rows, files, crypto, now, uuids, salts, master, rot, exp>>

ResetFailedAttempts ==
    /\ Idle
    /\ meta' = ResetAttempts(meta)
    /\ ret' = Ret("reset_failed_attempts", "Ok")
    /\ streak' = NoStreak
    /\ UNCHANGED <<salt, verify, rows, files, crypto, now, uuids, salts, master, rot, exp>>

\* The process ends and main() runs again, which forgets the failed attempts
\* as if they were counted in memory.
RestartForgettingAttempts ==
    /\ crypto' = CryptoNew
    /\ meta' = ResetAttempts(meta)
    /\ rot' = RotIdle /\ exp' = None
    /\ ret' = Ret("main", "Ok")
    /\ UNCHANGED <<salt, verify, rows, files, now, uuids, salts, master, streak>>

\* The process ends and main() runs again: Storage::new opens the database
\* and the files that are there, and the session gets a new, locked engine.
Restart ==
    /\ crypto' = CryptoNew
    /\ rot' = RotIdle /\ exp' = None
    /\ ret' = Ret("main", "Ok")
    /\ UNCHANGED <<salt, verify, meta, rows, files, now, uuids, salts, master, streak>>

(***************************************************************************)
(* Adding items.                                                           *)
(***************************************************************************)
MaxNameLen == 255
MaxContentLen == 10485760
MaxTagLen == 50
MaxTags == 20
ChSpace == 32
ChNul == 0
ChLf == 10
ChCr == 13
ChSlash == 47
ChBackslash == 92

\* str::trim().is_empty()
IsBlank(s) == \A i \in 1..Len(s) : s[i] = ChSpace
Contains(s, ch) == \E i \in 1..Len(s) : s[i] = ch

TextNames == {<<97>>}
FolderNames == {<<102>>}
Contents == {<<120>>}
TagLists == {<<>>}

\* The validation of add_text_item, in its order; "Ok" when the arguments pass.
ValidateTextItem(args) ==
    IF IsBlank(args.name) \/ args.content = <<>> THEN "InvalidInput"
    ELSE IF Len(args.name) > MaxNameLen THEN "InvalidInput"
    ELSE IF Len(args.content) > MaxContentLen THEN "InvalidInput"
    ELSE IF \E i \in 1..Len(args.tags) :
                \/ Len(args.tags[i]) > MaxTagLen
                \/ Contains(args.tags[i], ChNul) \/ Contains(args.tags[i], ChLf) \/ Contains(args.tags[i], ChCr)
         THEN "InvalidInput"
    ELSE IF Len(args.tags) > MaxTags THEN "InvalidInput"
    ELSE "Ok"

AddTextItem(args) ==
    /\ Idle
    /\ IF ValidateTextItem(args) # "Ok"
       THEN /\ ret' = Ret("add_text_item", "InvalidInput")
            /\ UNCHANGED <<rows, files, uuids>>
       ELSE IF ~IsUnlocked(crypto)
       THEN /\ ret' = Ret("add_text_item", "VaultLocked")
            /\ UNCHANGED <<rows, files, uuids>>
       ELSE LET data_path == Uuid(uuids + 1)
                item == [id |-> Uuid(uuids + 2),
                         parent_id |-> args.parent_id,
                         name |-> args.name,
                         data_path |-> data_path,
                         item_type |-> IF args.item_type = "text" THEN "text/plain" ELSE args.item_type,
                         folder_type |-> None,
                         tags |-> args.tags,
                         created_at |-> now,
                         updated_at |-> now,
                         deleted_at |-> None,
                         totp_secret |-> args.totp_secret]
            IN  /\ uuids' = uuids + 2
                /\ files' = WriteEncryptedFile(files, Encrypt(crypto, args.content), data_path)
                /\ rows' = AddItem(rows, item, crypto)
                /\ ret' = Ret("add_text_item", "Ok")
    /\ UNCHANGED <<salt, verify, meta, crypto, now, salts, master, streak, rot, exp>>

\* add_text_item whose storage.add_item fails (the database is full, busy or
\* unwritable) after write_encrypted_file has written the payload: `?` returns
\* the error and nothing removes the file.
AddTextItemIoError(args) ==
    /\ Idle
    /\ ValidateTextItem(args) = "Ok"
    /\ IsUnlocked(crypto)
    /\ uuids' = uuids + 2
    /\ files' = WriteEncryptedFile(files, Encrypt(crypto, args.content), Uuid(uuids + 1))
    /\ ret' = Ret("add_text_item", "Storage")
    /\ UNCHANGED <<salt, verify, meta, rows, crypto, now, salts, master, streak, rot, exp>>

ChDot == 46
ChTilde == 126

\* add_file_item. file is what args.file_path leads to outside the vault: None
\* when canonicalize finds no such file, else the bytes fs::read returns.
AddFileItem(args, file) ==
    /\ Idle
    /\ IF ~IsUnlocked(crypto)
       THEN /\ ret' = Ret("add_file_item", "VaultLocked")
            /\ UNCHANGED <<rows, files, uuids>>
       ELSE IF file = None
       THEN /\ ret' = Ret("add_file_item", "InvalidInput")
            /\ UNCHANGED <<rows, files, uuids>>
       ELSE IF \/ \E i \in 1..(Len(args.file_path) - 1) : args.file_path[i] = ChDot /\ args.file_path[i + 1] = ChDot
               \/ Contains(args.file_path, ChTilde)
       THEN /\ ret' = Ret("add_file_item", "InvalidInput")
            /\ UNCHANGED <<rows, files, uuids>>
       ELSE LET data_path == Uuid(uuids + 1)
                item == [id |-> Uuid(uuids + 2),
                         parent_id |-> args.parent_id,
                         name |-> args.name,
                         data_path |-> data_path,
                         item_type |-> "application/octet-stream",  \* mime_guess of a path without extension
                         folder_type |-> None,
                         tags |-> args.tags,
                         created_at |-> now,
                         updated_at |-> now,
                         deleted_at |-> None,
                         totp_secret |-> None]
            IN  /\ uuids' = uuids + 2
                /\ files' = WriteEncryptedFile(files, Encrypt(crypto, Unwrap(file)), data_path)
                /\ rows' = AddItem(rows, item, crypto)
                /\ ret' = Ret("add_file_item", "Ok")
    /\ UNCHANGED <<salt, verify, meta, crypto, now, salts, master, streak, rot, exp>>

\* The validation of add_folder.
ValidateFolder(args) ==
    IF IsBlank(args.name) THEN "InvalidInput"
    ELSE IF Len(args.name) > MaxNameLen THEN "InvalidInput"
    ELSE IF Contains(args.name, ChNul) \/ Contains(args.name, ChSlash) \/ Contains(args.name, ChBackslash)
    THEN "InvalidInput"
    ELSE "Ok"

AddFolder(args) ==
    /\ Idle
    /\ IF ValidateFolder(args) # "Ok"
       THEN /\ ret' = Ret("add_folder", "InvalidInput")
            /\ UNCHANGED <<rows, uuids>>
       ELSE IF ~IsUnlocked(crypto)
       THEN /\ ret' = Ret("add_folder", "VaultLocked")
            /\ UNCHANGED <<rows, uuids>>
       ELSE LET item == [id |-> Uuid(uuids + 1),
                         parent_id |-> args.parent_id,
                         name |-> args.name,
                         data_path |-> <<>>,
                         item_type |-> "folder",
                         folder_type |-> args.folder_type,
                         tags |-> <<>>,
                         created_at |-> now,
                         updated_at |-> now,
                         deleted_at |-> None,
                         totp_secret |-> None]
            IN  /\ uuids' = uuids + 1
                /\ rows' = AddItem(rows, item, crypto)
                /\ ret' = Ret("add_folder", "Ok")
    /\ UNCHANGED <<salt, verify, meta, files, crypto, now, salts, master, streak, rot, exp>>

(***************************************************************************)
(* update_master_key. It holds the storage and the crypto lock throughout, *)
(* so no other command runs between its steps; the clock does.             *)
(***************************************************************************)
RotSteps == {"row", "payload", "token", "salt", "strength"}

\* Where the loop over all_items goes after item i.
RotNext(r, i) == IF i < Len(r.all_items) THEN [r EXCEPT !.pc = "row", !.i = i + 1] ELSE [r EXCEPT !.pc = "token"]

\* Lines 856-875: verify the current key on the primary engine, build the
\* second engine, read all items.
UpdateMasterKeyBegin(args) ==
    /\ Idle
    /\ IF salt = None \/ verify = None
       THEN /\ ret' = Ret("update_master_key", "Io")
            /\ UNCHANGED <<crypto, rot, salts>>
       ELSE LET current_strength == GetKeyDerivationStrength(meta)
                derived_key == DeriveKey(args.current_key, Unwrap(salt), current_strength)
                unlocked == CryptoUnlock(derived_key)
            IN  IF ~DecryptOk(unlocked, Unwrap(verify))
                THEN /\ crypto' = CryptoLock
                     /\ ret' = Ret("update_master_key", "InvalidMasterKey")
                     /\ UNCHANGED <<rot, salts>>
                ELSE LET new_strength == IF args.strength = None THEN current_strength ELSE Unwrap(args.strength)
                         new_salt == salts + 1
                         new_derived_key == DeriveKey(args.new_key, new_salt, new_strength)
                         r == [pc |-> "row", i |-> 1,
                               engine_before |-> crypto,
                               new_key |-> args.new_key,
                               new_salt |-> new_salt,
                               new_strength |-> new_strength,
                               verification_token |-> Unwrap(verify),
                               temp_crypto_for_reencrypt |-> CryptoUnlock(new_derived_key),
                               all_items |-> IF GetAllItemsOk(rows, unlocked)
                                             THEN GetAllItemsRecursive(rows, unlocked) ELSE <<>>]
                     IN  /\ salts < MaxSalts
                         /\ salts' = new_salt
                         /\ crypto' = unlocked
                         /\ IF ~GetAllItemsOk(rows, unlocked)
                            THEN /\ ret' = Ret("update_master_key", "DecryptionFailed")
                                 /\ rot' = RotIdle
                            ELSE /\ ret' = Ret("update_master_key", "running")
                                 /\ rot' = IF r.all_items = <<>> THEN [r EXCEPT !.pc = "token"] ELSE r
    /\ UNCHANGED <<salt, verify, meta, rows, files, now, uuids, master, streak, exp>>

\* Line 879: update_item_fields(item, &temp_crypto_for_reencrypt).
UpdateMasterKeyRow ==
    /\ rot.pc = "row"
    /\ LET item == rot.all_items[rot.i] IN
       /\ rows' = UpdateItemFields(rows, item, rot.temp_crypto_for_reencrypt)
       /\ rot' = IF item.data_path # <<>> THEN [rot EXCEPT !.pc = "payload"] ELSE RotNext(rot, rot.i)
    /\ UNCHANGED <<salt, verify, meta, files, crypto, now, uuids, salts, master, streak, ret, exp>>

\* Lines 881-885: read the payload with the primary engine, write it under the second.
UpdateMasterKeyPayload ==
    /\ rot.pc = "payload"
    /\ LET item == rot.all_items[rot.i] IN
       IF ~ReadEncryptedFileOk(files, item.data_path, crypto)
       THEN /\ ret' = Ret("update_master_key", IF item.data_path \in DOMAIN files THEN "DecryptionFailed" ELSE "Storage")
            /\ rot' = RotIdle
            /\ UNCHANGED files
       ELSE /\ files' = WriteEncryptedFile(files,
                            Encrypt(rot.temp_crypto_for_reencrypt, ReadEncryptedFile(files, item.data_path, crypto)),
                            item.data_path)
            /\ rot' = RotNext(rot, rot.i)
            /\ UNCHANGED ret
    /\ UNCHANGED <<salt, verify, meta, rows, crypto, now, uuids, salts, master, streak, exp>>

\* Lines 888-890: the verification token under the second engine.
UpdateMasterKeyToken ==
    /\ rot.pc = "token"
    /\ verify' = Some(Encrypt(rot.temp_crypto_for_reencrypt, Decrypt(crypto, rot.verification_token)))
    /\ rot' = [rot EXCEPT !.pc = "salt"]
    /\ UNCHANGED <<salt, meta, rows, files, crypto, now, uuids, salts, master, streak, ret, exp>>

\* Line 892: update_salt.
UpdateMasterKeySalt ==
    /\ rot.pc = "salt"
    /\ salt' = Some(rot.new_salt)
    /\ rot' = [rot EXCEPT !.pc = "strength"]
    /\ UNCHANGED <<verify, meta, rows, files, crypto, now, uuids, salts, master, streak, ret, exp>>

\* Lines 893-898: set_key_derivation_strength, then the primary engine is replaced.
UpdateMasterKeyFinish ==
    /\ rot.pc = "strength"
    /\ meta' = SetKeyDerivationStrength(meta, rot.new_strength)
    /\ crypto' = rot.temp_crypto_for_reencrypt
    /\ master' = Some(rot.new_key)
    /\ ret' = Ret("update_master_key", "Ok")
    /\ rot' = RotIdle
    /\ UNCHANGED <<salt, verify, rows, files, now, uuids, salts, streak, exp>>

\* The database or file write the rotation is about to make fails: `?` returns the error.
UpdateMasterKeyIoError ==
    /\ rot.pc \in RotSteps
    /\ ret' = Ret("update_master_key", "Storage")
    /\ rot' = RotIdle
    /\ UNCHANGED <<salt, verify, meta, rows, files, crypto, now, uuids, salts, master, streak, exp>>

(***************************************************************************)
(* export_decrypted_vault and delete_vault.                                *)
(***************************************************************************)
\* Lines 905-920, under the storage lock: verify the passphrase on a checker engine.
ExportVerify(master_key) ==
    /\ Idle
    /\ exp = None
    /\ IF salt = None \/ verify = None
       THEN /\ ret' = Ret("export_decrypted_vault", "Io")
            /\ UNCHANGED exp
       ELSE LET key == DeriveKey(master_key, Unwrap(salt), GetKeyDerivationStrength(meta)) IN
            IF ~DecryptOk(CryptoUnlock(key), Unwrap(verify))
            THEN /\ ret' = Ret("export_decrypted_vault", "InvalidMasterKey")
                 /\ UNCHANGED exp
            ELSE /\ ret' = Ret("export_decrypted_vault", "verified")
                 /\ exp' = Some(key)
    /\ UNCHANGED <<salt, verify, meta, rows, files, crypto, now, uuids, salts, master, streak, rot>>

\* Every payload the export reads decrypts under c.
ExportPayloadsOk(items, c) ==
    \A i \in 1..Len(items) : items[i].data_path # <<>> => ReadEncryptedFileOk(files, items[i].data_path, c)

\* Lines 922-1029, under the crypto lock and then the storage lock: unlock the
\* primary engine with the verified key and read every item and payload.
ExportRead ==
    /\ Idle
    /\ exp # None
    /\ LET unlocked == CryptoUnlock(Unwrap(exp)) IN
       /\ crypto' = unlocked
       /\ ret' = IF ~GetAllItemsOk(rows, unlocked) THEN Ret("export_decrypted_vault", "DecryptionFailed")
                 ELSE IF ~ExportPayloadsOk(GetAllItemsRecursive(rows, unlocked), unlocked)
                 THEN Ret("export_decrypted_vault", "Storage")
                 ELSE Ret("export_decrypted_vault", "Ok")
    /\ exp' = None
    /\ UNCHANGED <<salt, verify, meta, rows, files, now, uuids, salts, master, streak, rot>>

\* Lines 922-926 and 1028 of an export whose args.format is none of "json",
\* "csv", "txt" and "md": the primary engine is unlocked and the items are
\* read before the match on the format.
ExportReadUnsupported ==
    /\ Idle
    /\ exp # None
    /\ LET unlocked == CryptoUnlock(Unwrap(exp)) IN
       /\ crypto' = unlocked
       /\ ret' = IF ~GetAllItemsOk(rows, unlocked) THEN Ret("export_decrypted_vault", "DecryptionFailed")
                 ELSE Ret("export_decrypted_vault", "InvalidInput")
    /\ exp' = None
    /\ UNCHANGED <<salt, verify, meta, rows, files, now, uuids, salts, master, streak, rot>>

DeleteVault(master_key) ==
    /\ Idle
    /\ IF salt = None \/ verify = None
       THEN /\ ret' = Ret("delete_vault", "Io")
            /\ UNCHANGED <<salt, verify, meta, rows, files, crypto, master, streak>>
       ELSE LET key == DeriveKey(master_key, Unwrap(salt), GetKeyDerivationStrength(meta)) IN
            IF ~DecryptOk(CryptoUnlock(key), Unwrap(verify))
            THEN /\ ret' = Ret("delete_vault", "InvalidMasterKey")
                 /\ UNCHANGED <<salt, verify, meta, rows, files, crypto, master, streak>>
            ELSE \* Storage::reset, then the primary engine is locked
                 /\ rows' = <<>>
                 /\ meta' = EmptyMeta
                 /\ files' = NoFiles
                 /\ salt' = None
                 /\ verify' = None
                 /\ crypto' = CryptoLock
                 /\ master' = None
                 /\ ret' = Ret("delete_vault", "Ok")
                 /\ streak' = NoStreak
    /\ UNCHANGED <<now, uuids, salts, rot, exp>>

(***************************************************************************)
(* The specification of the commands.                                      *)
(***************************************************************************)
\* The arguments the commands are called with.
InitArgs == [master_key : {"pw1"}, strength : {None}]
ConfigArgs == {c \in BruteForceConfigs : c.enabled /\ c.max_attempts = MaxFailed /\ c.lockout_duration_minutes = MaxMinutes}
RotArgs == [current_key : Passphrases, new_key : {"pw2"}, strength : {Some("Fast")}]
TextArgs == [name : TextNames, content : Contents, item_type : {"text"}, tags : TagLists, parent_id : {None}, totp_secret : {None}]
FolderArgs == [name : FolderNames, parent_id : {None}, folder_type : {None}]

Next ==
    \/ Tick /\ UNCHANGED lockVars
    \/ \E a \in InitArgs : InitializeVault(a.master_key, a.strength) /\ UNCHANGED lockVars
    \/ \E p \in Passphrases : UnlockVault(p) /\ UNCHANGED lockVars
    \/ LockVault /\ UNCHANGED lockVars
    \/ GetLockoutStatus /\ UNCHANGED lockVars
    \/ \E c \in ConfigArgs : SetBruteForceConfig(c) /\ UNCHANGED lockVars
    \/ ResetFailedAttempts /\ UNCHANGED lockVars
    \/ \E a \in TextArgs : uuids + 2 <= 2 * MaxItems /\ AddTextItem(a) /\ UNCHANGED lockVars
    \/ \E a \in FolderArgs : uuids + 2 <= 2 * MaxItems /\ AddFolder(a) /\ UNCHANGED lockVars
    \/ \E a \in RotArgs : UpdateMasterKeyBegin(a) /\ UNCHANGED lockVars
    \/ UpdateMasterKeyRow /\ UNCHANGED lockVars
    \/ UpdateMasterKeyPayload /\ UNCHANGED lockVars
    \/ UpdateMasterKeyToken /\ UNCHANGED lockVars
    \/ UpdateMasterKeySalt /\ UNCHANGED lockVars
    \/ UpdateMasterKeyFinish /\ UNCHANGED lockVars
    \/ UpdateMasterKeyIoError /\ UNCHANGED lockVars
    \/ \E p \in Passphrases : ExportVerify(p) /\ UNCHANGED lockVars
    \/ ExportRead /\ UNCHANGED lockVars
    \/ \E p \in Passphrases : DeleteVault(p) /\ UNCHANGED lockVars

Spec == Init /\ [][Next]_vars

(***************************************************************************)
(* The brute-force protection on its own: the commands that read or write  *)
(* the failed-attempt counter, under every configuration and passphrase.   *)
(***************************************************************************)
LimiterInitArgs == [master_key : Passphrases, strength : StrengthArgs]

LimiterNext ==
    \/ Tick /\ UNCHANGED lockVars
    \/ \E a \in LimiterInitArgs : InitializeVault(a.master_key, a.strength) /\ UNCHANGED lockVars
    \/ \E p \in Passphrases : UnlockVault(p) /\ UNCHANGED lockVars
    \/ LockVault /\ UNCHANGED lockVars
    \/ GetLockoutStatus /\ UNCHANGED lockVars
    \/ \E c \in BruteForceConfigs : SetBruteForceConfig(c) /\ UNCHANGED lockVars
    \/ ResetFailedAttempts /\ UNCHANGED lockVars
    \/ \E a \in TextArgs : uuids + 2 <= 2 * MaxItems /\ AddTextItem(a) /\ UNCHANGED lockVars

LimiterSpec == Init /\ [][LimiterNext]_vars

(***************************************************************************)
(* The two session locks. A handler is the sequence of lock operations and *)
(* of steps on the vault's state that its code makes, in order; a thread   *)
(* runs one handler at a time. A guard is released where it goes out of    *)
(* scope: guards declared in one scope are dropped in reverse order.       *)
(***************************************************************************)
GetVaultItemsPaths == {<<"acqS", "acqC", "body", "relC", "relS">>}
UnlockVaultPaths ==
    {<<"acqS", "body", "relS">>,
     <<"acqS", "body", "acqC", "body", "relC", "relS">>}
LockVaultPaths == {<<"acqC", "body", "relC">>}
GetLockoutStatusPaths == {<<"acqS", "body", "relS">>}
RestoreItemPaths ==
    {<<"acqS", "acqC", "body", "relC", "relS">>,
     <<"acqS", "acqC", "body", "relC", "body", "relS">>}
\* update_master_key without one of its two guards.
UpdateMasterKeyPathsStorageOnly ==
    {<<"acqS", "first_read", "relS">>,
     <<"acqS", "first_read", "reencrypt", "swap", "relS">>}
UpdateMasterKeyPaths ==
    {<<"acqS", "acqC", "first_read", "relC", "relS">>,
     <<"acqS", "acqC", "first_read", "reencrypt", "swap", "relC", "relS">>}
ExportDecryptedVaultPaths ==
    {<<"acqS", "body", "relS">>,
     <<"acqS", "body", "relS", "acqC", "body", "acqS", "body", "relS", "relC">>}
DeleteVaultPaths ==
    {<<"acqS", "body", "relS">>,
     <<"acqS", "body", "acqC", "body", "relC", "relS">>}

Handlers ==
    {"get_vault_items", "unlock_vault", "lock_vault", "get_lockout_status", "restore_item",
     "update_master_key", "export_decrypted_vault", "delete_vault"}

Paths(op) ==
    CASE op = "get_vault_items" -> GetVaultItemsPaths
      [] op = "unlock_vault" -> UnlockVaultPaths
      [] op = "lock_vault" -> LockVaultPaths
      [] op = "get_lockout_status" -> GetLockoutStatusPaths
      [] op = "restore_item" -> RestoreItemPaths
      [] op = "update_master_key" -> UpdateMasterKeyPaths
      [] op = "export_decrypted_vault" -> ExportDecryptedVaultPaths
      [] op = "delete_vault" -> DeleteVaultPaths

LockSteps == {"acqS", "acqC", "relS", "relC"}

\* What thread t does next: a step of its path, "return" after the last, "none" when idle.
At(t) ==
    IF thr[t].op = "none" THEN "none"
    ELSE IF thr[t].ip > Len(thr[t].path) THEN "return"
    ELSE thr[t].path[thr[t].ip]

Advance(t) == thr' = [thr EXCEPT ![t].ip = thr[t].ip + 1]

Call(t) ==
    /\ thr[t].op = "none"
    /\ \E op \in Handlers : \E path \in Paths(op) : thr' = [thr EXCEPT ![t] = [op |-> op, path |-> path, ip |-> 1]]
    /\ UNCHANGED <<storageLock, cryptoLock>>

AcquireStorage(t) ==
    /\ At(t) = "acqS"
    /\ storageLock = 0
    /\ storageLock' = t
    /\ Advance(t)
    /\ UNCHANGED cryptoLock

AcquireCrypto(t) ==
    /\ At(t) = "acqC"
    /\ cryptoLock = 0
    /\ cryptoLock' = t
    /\ Advance(t)
    /\ UNCHANGED storageLock

ReleaseStorage(t) ==
    /\ At(t) = "relS"
    /\ storageLock' = 0
    /\ Advance(t)
    /\ UNCHANGED cryptoLock

ReleaseCrypto(t) ==
    /\ At(t) = "relC"
    /\ cryptoLock' = 0
    /\ Advance(t)
    /\ UNCHANGED storageLock

\* A step of the handler on the state the locks guard.
Body(t) ==
    /\ At(t) \notin LockSteps \cup {"none", "return"}
    /\ Advance(t)
    /\ UNCHANGED <<storageLock, cryptoLock>>

Return(t) ==
    /\ At(t) = "return"
    /\ thr' = [thr EXCEPT ![t] = ThreadIdle]
    /\ UNCHANGED <<storageLock, cryptoLock>>

LockNext ==
    \/ \E t \in Threads : Call(t) /\ UNCHANGED dataVars
    \/ \E t \in Threads : AcquireStorage(t) /\ UNCHANGED dataVars
    \/ \E t \in Threads : AcquireCrypto(t) /\ UNCHANGED dataVars
    \/ \E t \in Threads : ReleaseStorage(t) /\ UNCHANGED dataVars
    \/ \E t \in Threads : ReleaseCrypto(t) /\ UNCHANGED dataVars
    \/ \E t \in Threads : Body(t) /\ UNCHANGED dataVars
    \/ \E t \in Threads : Return(t) /\ UNCHANGED dataVars

LockSpec == Init /\ [][LockNext]_vars

(***************************************************************************)
(* Permanent deletion step by step: what permanently_delete_item and       *)
(* permanently_delete_all_items do to the database and to one payload      *)
(* file, in the order they do it, with every I/O operation able to fail.   *)
(***************************************************************************)
\* write_shred_pattern that returns after flush, without sync_all.
WriteShredPatternWithoutSync(pattern_byte, fail) ==
    LET ops == <<"open", "write " \o pattern_byte, "flush">> IN
    IF fail \notin DOMAIN ops THEN [events |-> ops, ok |-> TRUE]
    ELSE [events |-> SubSeq(ops, 1, fail - 1) \o <<ops[fail] \o " failed">>, ok |-> FALSE]

\* write_shred_pattern: the file is opened (and its length read), overwritten
\* over its whole length with the pattern, flushed and synced; the operation
\* number fail (0: none) returns its error through `?`.
WriteShredPattern(pattern_byte, fail) ==
    LET ops == <<"open", "write " \o pattern_byte, "flush", "sync">> IN
    IF fail \notin DOMAIN ops THEN [events |-> ops, ok |-> TRUE]
    ELSE [events |-> SubSeq(ops, 1, fail - 1) \o <<ops[fail] \o " failed">>, ok |-> FALSE]

\* secure_shred_file over the passes that are left: the four patterns through
\* write_shred_pattern, then the pass of random bytes, which opens, overwrites,
\* flushes and syncs in the same way. fail = <<pass, operation>> names the
\* operation that fails, <<0, 0>> for none.
RECURSIVE SecureShredFile(_, _)
SecureShredFile(passes, fail) ==
    IF passes = <<>> THEN [events |-> <<>>, ok |-> TRUE]
    ELSE LET pass == WriteShredPattern(Head(passes), IF fail[1] = 1 THEN fail[2] ELSE 0) IN
         IF ~pass.ok THEN pass
         ELSE LET rest == SecureShredFile(Tail(passes), <<fail[1] - 1, fail[2]>>) IN
              [events |-> pass.events \o rest.events, ok |-> rest.ok]

\* A transaction of database steps, one of which (0: none) fails: the error
\* is returned and the dropped transaction rolls back.
DbSteps(steps, fail) ==
    IF fail \notin DOMAIN steps THEN steps
    ELSE SubSeq(steps, 1, fail - 1) \o <<steps[fail] \o " failed", "rollback">>

\* permanently_delete_item on an item with one payload file: both locks, the
\* locked check, the transaction of permanently_delete_item_and_descendants,
\* and after the commit the payload: secure_shred_file, the fallback
\* write_shred_pattern(0x00) when it failed, fs::remove_file.
PermanentlyDeleteItemPaths ==
    LET passes == <<"0x00", "0xFF", "0xAA", "0x55", "random">>
        ops == DOMAIN WriteShredPattern("0x00", 0).events
        tx == <<"collect ids", "select rows", "delete rows", "commit">>
        Payload(shred_fail, fallback_fail, removed) ==
            LET shred == SecureShredFile(passes, shred_fail) IN
            shred.events
              \o (IF shred.ok THEN <<>> ELSE WriteShredPattern("0x00", fallback_fail).events)
              \o <<IF removed THEN "unlink" ELSE "unlink failed">>
    IN  {<<"acqS", "acqC", "locked", "relC", "relS">>}
        \cup {<<"acqS", "acqC">> \o DbSteps(tx, fail) \o <<"relC", "relS">> : fail \in DOMAIN tx}
        \cup {<<"acqS", "acqC">> \o tx \o Payload(shred_fail, fallback_fail, removed) \o <<"relC", "relS">> :
                 shred_fail \in {<<0, 0>>} \cup ((DOMAIN passes) \X ops),
                 fallback_fail \in {0} \cup ops,
                 removed \in BOOLEAN}

\* permanently_delete_all_items on a recycle bin with one payload file:
\* inside the transaction the payload is removed with fs::remove_file, then
\* the rows are deleted and the transaction committed.
PermanentlyDeleteAllItemsPaths ==
    LET Tx(removed) == <<"select deleted rows", IF removed THEN "unlink" ELSE "unlink failed",
                         "delete rows", "commit">>
    IN  {<<"acqS", "acqC", "locked", "relC", "relS">>}
        \cup {<<"acqS", "acqC">> \o DbSteps(Tx(removed), fail) \o <<"relC", "relS">> :
                 removed \in BOOLEAN, fail \in {0, 1, 3, 4}}

\* One command thread: the commands hold the storage lock from their first
\* step to their last, so that a second thread waits for the first.
PurgeNext ==
    LET t == 1 IN
    \/ /\ thr[t].op = "none"
       /\ \E path \in PermanentlyDeleteItemPaths :
             thr' = [thr EXCEPT ![t] = [op |-> "permanently_delete_item", path |-> path, ip |-> 1]]
       /\ UNCHANGED <<storageLock, cryptoLock>> /\ UNCHANGED dataVars
    \/ /\ thr[t].op = "none"
       /\ \E path \in PermanentlyDeleteAllItemsPaths :
             thr' = [thr EXCEPT ![t] = [op |-> "permanently_delete_all_items", path |-> path, ip |-> 1]]
       /\ UNCHANGED <<storageLock, cryptoLock>> /\ UNCHANGED dataVars
    \/ AcquireStorage(t) /\ UNCHANGED dataVars
    \/ AcquireCrypto(t) /\ UNCHANGED dataVars
    \/ ReleaseStorage(t) /\ UNCHANGED dataVars
    \/ ReleaseCrypto(t) /\ UNCHANGED dataVars
    \/ Body(t) /\ UNCHANGED dataVars
    \/ Return(t) /\ UNCHANGED dataVars

PurgeSpec == Init /\ [][PurgeNext]_vars

(***************************************************************************)
(* Items: update, soft delete, restore and permanent deletion.             *)
(***************************************************************************)
\* The ids the worklist of the two cascades collects from a queue: each id
\* popped, then those of SELECT id FROM vault_items WHERE parent_id = ?1.
RECURSIVE CollectIds(_, _, _)
CollectIds(rs, seen, queue) ==
    IF queue \subseteq seen THEN seen
    ELSE CollectIds(rs, seen \cup queue,
                    {rs[i].id : i \in {j \in 1..Len(rs) : rs[j].parent_id # None /\ Unwrap(rs[j].parent_id) \in queue}})

IdsToDelete(rs, id) == CollectIds(rs, {}, {id})
\* The worklist pops an id and pushes its children without remembering what
\* it has seen: it empties exactly when id is not among its own descendants.
WorklistEnds(rs, id) == \A i \in 1..Len(rs) : rs[i].id = id => rs[i].parent_id \cap IdsToDelete(rs, id) = {}

\* delete_item_and_descendants that stamps the item alone.
DeleteItemAlone(rs, id, c, t) ==
    [i \in 1..Len(rs) |->
        IF rs[i].id = id THEN [rs[i] EXCEPT !.deleted_at = Some(Encrypt(c, ToText(t)))] ELSE rs[i]]

DeleteItemAndDescendants(rs, id, c, t) ==
    [i \in 1..Len(rs) |->
        IF rs[i].id \in IdsToDelete(rs, id)
        THEN [rs[i] EXCEPT !.deleted_at = Some(Encrypt(c, ToText(t)))]
        ELSE rs[i]]

\* The item commands hold both locks; none runs during a rotation.
ItemVars == <<salt, verify, meta, crypto, now, salts, master, streak, rot, exp>>

DeleteItem(id) ==
    /\ Idle
    /\ IF ~IsUnlocked(crypto)
       THEN /\ ret' = Ret("delete_item", "VaultLocked")
            /\ UNCHANGED rows
       ELSE /\ WorklistEnds(rows, id)
            /\ rows' = DeleteItemAndDescendants(rows, id, crypto, now)
            /\ ret' = RetVal("delete_item", "Ok", TRUE)
    /\ UNCHANGED <<files, uuids>>
    /\ UNCHANGED ItemVars

\* What fs::remove_file leaves of the payloads it is asked to remove: a removal
\* that fails is logged and the file stays, overwritten when the shredding
\* before it succeeded.
Shredded == [k |-> <<>>, pt |-> <<>>]
RemoveFiles(fs, fate) ==
    [f \in {g \in DOMAIN fs : g \notin DOMAIN fate \/ fate[g] # "removed"} |->
        IF f \in DOMAIN fate /\ fate[f] = "shredded" THEN Shredded ELSE fs[f]]

\* permanently_delete_item_and_descendants that removes the item alone.
PermanentlyDeleteItemAlone(rs, id) == SelectSeq(rs, LAMBDA r : r.id # id)

\* The rows permanently_delete_item_and_descendants leaves.
PermanentlyDeleteItemAndDescendants(rs, id) ==
    SelectSeq(rs, LAMBDA r : r.id \notin IdsToDelete(rs, id))

\* permanently_delete_item that takes a payload it could not shred or unlink
\* for a failure of the command: the rows are put back and an error returned.
PermanentlyDeleteItemRollingBack(id) ==
    /\ Idle
    /\ IF ~IsUnlocked(crypto)
       THEN /\ ret' = Ret("permanently_delete_item", "VaultLocked")
            /\ UNCHANGED <<rows, files>>
       ELSE LET data_paths == {Decrypt(crypto, rows[i].data_path) :
                                  i \in {j \in 1..Len(rows) : /\ rows[j].id \in IdsToDelete(rows, id)
                                                               /\ RowDecryptOk(rows[j], crypto)}} \ {<<>>}
            IN
            /\ WorklistEnds(rows, id)
            /\ \E fate \in [data_paths \cap DOMAIN files -> {"removed", "shredded", "intact"}] :
                  /\ files' = RemoveFiles(files, fate)
                  /\ IF \A f \in DOMAIN fate : fate[f] = "removed"
                     THEN /\ rows' = PermanentlyDeleteItemAndDescendants(rows, id)
                          /\ ret' = RetVal("permanently_delete_item", "Ok", TRUE)
                     ELSE /\ rows' = rows
                          /\ ret' = Ret("permanently_delete_item", "Io")
    /\ UNCHANGED uuids
    /\ UNCHANGED ItemVars

PermanentlyDeleteItem(id) ==
    /\ Idle
    /\ IF ~IsUnlocked(crypto)
       THEN /\ ret' = Ret("permanently_delete_item", "VaultLocked")
            /\ UNCHANGED <<rows, files>>
       ELSE \* data_paths: the payloads of the collected rows that decrypt
            LET data_paths == {Decrypt(crypto, rows[i].data_path) :
                                  i \in {j \in 1..Len(rows) : /\ rows[j].id \in IdsToDelete(rows, id)
                                                               /\ RowDecryptOk(rows[j], crypto)}} \ {<<>>}
            IN
            /\ WorklistEnds(rows, id)
            /\ rows' = PermanentlyDeleteItemAndDescendants(rows, id)
            /\ \E fate \in [data_paths \cap DOMAIN files -> {"removed", "shredded", "intact"}] :
                  files' = RemoveFiles(files, fate)
            /\ ret' = RetVal("permanently_delete_item", "Ok", TRUE)
    /\ UNCHANGED uuids
    /\ UNCHANGED ItemVars

\* permanently_delete_all_deleted_items: the payloads go first, without
\* shredding, then the rows.
PermanentlyDeleteAllDeletedItems(rs) == SelectSeq(rs, LAMBDA r : r.deleted_at = None)

PermanentlyDeleteAllItems ==
    /\ Idle
    /\ IF ~IsUnlocked(crypto)
       THEN /\ ret' = Ret("permanently_delete_all_items", "VaultLocked")
            /\ UNCHANGED <<rows, files>>
       ELSE LET data_paths == {Decrypt(crypto, rows[i].data_path) :
                                  i \in {j \in 1..Len(rows) : /\ rows[j].deleted_at # None
                                                               /\ DecryptOk(crypto, rows[j].data_path)}} \ {<<>>}
            IN
            /\ \E fate \in [data_paths \cap DOMAIN files -> {"removed", "intact"}] :
                  files' = RemoveFiles(files, fate)
            /\ rows' = PermanentlyDeleteAllDeletedItems(rows)
            /\ ret' = RetVal("permanently_delete_all_items", "Ok", TRUE)
    /\ UNCHANGED uuids
    /\ UNCHANGED ItemVars

\* restore_item that restores the children of the item with it.
StorageRestoreItemAndChildren(rs, id) ==
    [i \in 1..Len(rs) |->
        IF rs[i].id = id \/ rs[i].parent_id = Some(id) THEN [rs[i] EXCEPT !.deleted_at = None] ELSE rs[i]]

StorageRestoreItem(rs, id) ==
    [i \in 1..Len(rs) |-> IF rs[i].id = id THEN [rs[i] EXCEPT !.deleted_at = None] ELSE rs[i]]

\* restore_item_to_root that keeps the parent.
StorageRestoreItemKeepingParent(rs, id) ==
    [i \in 1..Len(rs) |-> IF rs[i].id = id THEN [rs[i] EXCEPT !.deleted_at = None] ELSE rs[i]]

StorageRestoreItemToRoot(rs, id) ==
    [i \in 1..Len(rs) |->
        IF rs[i].id = id THEN [rs[i] EXCEPT !.deleted_at = None, !.parent_id = None] ELSE rs[i]]

\* changes > 0
HasRow(rs, id) == \E i \in 1..Len(rs) : rs[i].id = id

\* restore_item that does not look at the engine.
RestoreItemWithoutLockCheck(id) ==
    /\ Idle
    /\ rows' = StorageRestoreItem(rows, id)
    /\ ret' = RetVal("restore_item", "Ok", HasRow(rows, id))
    /\ UNCHANGED <<files, uuids>>
    /\ UNCHANGED <<salt, verify, meta, crypto, now, salts, master, streak, rot, exp>>

RestoreItem(id) ==
    /\ Idle
    /\ IF ~IsUnlocked(crypto)
       THEN /\ ret' = Ret("restore_item", "VaultLocked")
            /\ UNCHANGED rows
       ELSE /\ rows' = StorageRestoreItem(rows, id)
            /\ ret' = RetVal("restore_item", "Ok", HasRow(rows, id))
    /\ UNCHANGED <<files, uuids>>
    /\ UNCHANGED ItemVars

RestoreItemToRoot(id) ==
    /\ Idle
    /\ IF ~IsUnlocked(crypto)
       THEN /\ ret' = Ret("restore_item_to_root", "VaultLocked")
            /\ UNCHANGED rows
       ELSE /\ rows' = StorageRestoreItemToRoot(rows, id)
            /\ ret' = RetVal("restore_item_to_root", "Ok", HasRow(rows, id))
    /\ UNCHANGED <<files, uuids>>
    /\ UNCHANGED ItemVars

\* get_items: SELECT * FROM vault_items WHERE parent_id = ?1 / IS NULL, deleted
\* or not; the listing is these rows decrypted and sorted.
SelectByParent(rs, parent_id) == SelectSeq(rs, LAMBDA r : r.parent_id = parent_id)

UpdateItem(args) ==
    /\ Idle
    /\ IF IsBlank(args.name)
       THEN /\ ret' = Ret("update_item", "InvalidInput")
            /\ UNCHANGED <<rows, files>>
       ELSE IF ~IsUnlocked(crypto)
       THEN /\ ret' = Ret("update_item", "VaultLocked")
            /\ UNCHANGED <<rows, files>>
       ELSE IF ~HasRow(rows, args.id)
       THEN /\ ret' = Ret("update_item", "ItemNotFound")
            /\ UNCHANGED <<rows, files>>
       ELSE LET row == rows[CHOOSE i \in 1..Len(rows) : rows[i].id = args.id]
                existing_item == RowToVaultItem(row, crypto)
                item == [id |-> args.id,
                         parent_id |-> args.parent_id,
                         name |-> args.name,
                         data_path |-> existing_item.data_path,
                         item_type |-> args.item_type,
                         folder_type |-> existing_item.folder_type,
                         tags |-> args.tags,
                         created_at |-> existing_item.created_at,
                         updated_at |-> now,
                         deleted_at |-> existing_item.deleted_at,
                         totp_secret |-> IF args.totp_secret # None THEN args.totp_secret
                                         ELSE existing_item.totp_secret]
                is_text == args.item_type \in {"text", "key", "text/plain"}
            IN  IF ~RowDecryptOk(row, crypto)
                THEN /\ ret' = Ret("update_item", "DecryptionFailed")
                     /\ UNCHANGED <<rows, files>>
                ELSE IF is_text /\ existing_item.data_path = <<>>
                THEN \* fs::write on the data directory itself
                     /\ ret' = Ret("update_item", "Io")
                     /\ UNCHANGED <<rows, files>>
                ELSE /\ files' = IF is_text
                                 THEN WriteEncryptedFile(files, Encrypt(crypto, args.content), existing_item.data_path)
                                 ELSE files
                     /\ rows' = UpdateItemFields(rows, item, crypto)
                     /\ ret' = Ret("update_item", "Ok")
    /\ UNCHANGED uuids
    /\ UNCHANGED ItemVars

(***************************************************************************)
(* The item tree on its own: a vault of at most TreeUuids identifiers,     *)
(* whose items are added, moved, deleted, restored and purged.             *)
(***************************************************************************)
TreeUuids == 3
\* A caller names the identifiers it has been given: those drawn so far.
KnownIds == {Uuid(n) : n \in 1..uuids}
\* New items go to the root or under the newest row; the oldest row is moved
\* under the newest.
TreeNext ==
    LET parents == {None} \cup {Some(rows[i].id) : i \in {Len(rows)} \cap DOMAIN rows}
        text_args == [name : TextNames, content : Contents, item_type : {"text"}, tags : TagLists,
                      parent_id : parents, totp_secret : {None}]
        folder_args == [name : FolderNames, parent_id : parents, folder_type : {None}]
        update_args == [id : {rows[i].id : i \in {1} \cap DOMAIN rows}, parent_id : parents \ {None},
                        name : FolderNames, content : Contents, item_type : {"folder"}, tags : TagLists,
                        totp_secret : {None}]
    IN
    \/ \E a \in InitArgs : InitializeVault(a.master_key, a.strength) /\ UNCHANGED lockVars
    \/ \E a \in text_args : uuids + 2 <= TreeUuids /\ AddTextItem(a) /\ UNCHANGED lockVars
    \/ \E a \in text_args : uuids + 2 <= TreeUuids /\ AddTextItemIoError(a) /\ UNCHANGED lockVars
    \/ \E a \in folder_args : uuids + 1 <= TreeUuids /\ AddFolder(a) /\ UNCHANGED lockVars
    \/ \E a \in update_args : UpdateItem(a) /\ UNCHANGED lockVars
    \/ \E id \in KnownIds : DeleteItem(id) /\ UNCHANGED lockVars
    \/ \E id \in KnownIds : PermanentlyDeleteItem(id) /\ UNCHANGED lockVars
    \/ PermanentlyDeleteAllItems /\ UNCHANGED lockVars
    \/ \E id \in KnownIds : RestoreItem(id) /\ UNCHANGED lockVars
    \/ \E id \in KnownIds : RestoreItemToRoot(id) /\ UNCHANGED lockVars

TreeSpec == Init /\ [][TreeNext]_vars

(***************************************************************************)
(* Reading items, and import.                                              *)
(***************************************************************************)
\* get_vault_items without type filter. The listing is returned as the set of
\* its items: the sort permutes them.
GetVaultItems(parent_id) ==
    /\ Idle
    /\ LET selected == SelectByParent(rows, parent_id) IN
       ret' = IF ~IsUnlocked(crypto) THEN Ret("get_vault_items", "VaultLocked")
              ELSE IF ~GetAllItemsOk(selected, crypto) THEN Ret("get_vault_items", "DecryptionFailed")
              ELSE RetVal("get_vault_items", "Ok", {RowToVaultItem(selected[i], crypto) : i \in 1..Len(selected)})
    /\ UNCHANGED <<rows, files, uuids>>
    /\ UNCHANGED ItemVars

GetAllVaultItems ==
    /\ Idle
    /\ ret' = IF ~IsUnlocked(crypto) THEN Ret("get_all_vault_items", "VaultLocked")
              ELSE IF ~GetAllItemsOk(rows, crypto) THEN Ret("get_all_vault_items", "DecryptionFailed")
              ELSE RetVal("get_all_vault_items", "Ok", GetAllItemsRecursive(rows, crypto))
    /\ UNCHANGED <<rows, files, uuids>>
    /\ UNCHANGED ItemVars

GetDeletedItems ==
    /\ Idle
    /\ ret' = IF ~IsUnlocked(crypto) THEN Ret("get_deleted_items", "VaultLocked")
              ELSE IF ~GetAllItemsOk(rows, crypto) THEN Ret("get_deleted_items", "DecryptionFailed")
              ELSE RetVal("get_deleted_items", "Ok",
                          SelectSeq(GetAllItemsRecursive(rows, crypto), LAMBDA item : item.deleted_at # None))
    /\ UNCHANGED <<rows, files, uuids>>
    /\ UNCHANGED ItemVars

GetItemContent(id) ==
    /\ Idle
    /\ ret' = IF ~IsUnlocked(crypto) THEN Ret("get_item_content", "VaultLocked")
              ELSE IF ~HasRow(rows, id) THEN Ret("get_item_content", "ItemNotFound")
              ELSE LET row == rows[CHOOSE i \in 1..Len(rows) : rows[i].id = id] IN
                   IF ~RowDecryptOk(row, crypto) THEN Ret("get_item_content", "DecryptionFailed")
                   ELSE LET data_path == RowToVaultItem(row, crypto).data_path IN
                        IF data_path = <<>> THEN Ret("get_item_content", "Io")
                        ELSE IF data_path \notin DOMAIN files THEN Ret("get_item_content", "Storage")
                        ELSE IF ~ReadEncryptedFileOk(files, data_path, crypto)
                        THEN Ret("get_item_content", "DecryptionFailed")
                        ELSE RetVal("get_item_content", "Ok", ReadEncryptedFile(files, data_path, crypto))
    /\ UNCHANGED <<rows, files, uuids>>
    /\ UNCHANGED ItemVars

\* The loop of import_csv over the records of the CSV, each already reduced to
\* its title and its content; a record that does not parse ends the import
\* with an error and keeps what was imported before it.
RECURSIVE ImportRecords(_, _, _, _, _, _, _)
ImportRecords(records, parent_id, rs, fs, n, c, t) ==
    IF records = <<>> THEN [rows |-> rs, files |-> fs, uuids |-> n, res |-> "Ok"]
    ELSE LET row == Head(records) IN
         IF row.malformed THEN [rows |-> rs, files |-> fs, uuids |-> n, res |-> "Csv"]
         ELSE IF row.title = None \/ IsBlank(Unwrap(row.title)) \/ IsBlank(row.content)
         THEN ImportRecords(Tail(records), parent_id, rs, fs, n, c, t)
         ELSE LET item == [id |-> Uuid(n + 1),
                           parent_id |-> parent_id,
                           name |-> Unwrap(row.title),
                           data_path |-> <<>>,
                           item_type |-> "key",
                           folder_type |-> None,
                           tags |-> row.tags,
                           created_at |-> t,
                           updated_at |-> t,
                           deleted_at |-> None,
                           totp_secret |-> None]
                  file_name == item.id \o <<46, 116, 120, 116>>  \* format!("{}.txt", item.id)
              IN  ImportRecords(Tail(records), parent_id,
                                UpdateItemFields(AddItem(rs, item, c), [item EXCEPT !.data_path = file_name], c),
                                WriteEncryptedFile(fs, Encrypt(c, row.content), file_name),
                                n + 1, c, t)

ImportCsv(args) ==
    /\ Idle
    /\ IF ~IsUnlocked(crypto)
       THEN /\ ret' = Ret("import_csv", "VaultLocked")
            /\ UNCHANGED <<rows, files, uuids>>
       ELSE LET out == ImportRecords(args.csv_content, args.parent_id, rows, files, uuids, crypto, now) IN
            /\ rows' = out.rows
            /\ files' = out.files
            /\ uuids' = out.uuids
            /\ ret' = Ret("import_csv", out.res)
    /\ UNCHANGED ItemVars

(***************************************************************************)
(* Tags.                                                                   *)
(***************************************************************************)
\* The loop of rename_tag_in_all_items over the tags of one item: new_tags and
\* updated after the last tag.
RECURSIVE RenamedTags(_, _, _)
RenamedTags(tags, old_tag, new_tag) ==
    IF tags = <<>> THEN [new_tags |-> <<>>, updated |-> FALSE]
    ELSE LET before == RenamedTags(SubSeq(tags, 1, Len(tags) - 1), old_tag, new_tag)
             tag == tags[Len(tags)]
         IN  IF tag = old_tag
             THEN IF \A i \in 1..Len(before.new_tags) : before.new_tags[i] # new_tag
                  THEN [new_tags |-> Append(before.new_tags, new_tag), updated |-> TRUE]
                  ELSE before
             ELSE [new_tags |-> Append(before.new_tags, tag), updated |-> before.updated]

RenameTagInAllItems(rs, old_tag, new_tag, c, t) ==
    [i \in 1..Len(rs) |->
        LET item == RowToVaultItem(rs[i], c)
            renamed == RenamedTags(item.tags, old_tag, new_tag)
        IN  IF renamed.updated
            THEN EncryptItem([item EXCEPT !.tags = renamed.new_tags, !.updated_at = t], c)
            ELSE rs[i]]

RemoveTagFromAllItems(rs, tag_to_remove, c, t) ==
    [i \in 1..Len(rs) |->
        LET item == RowToVaultItem(rs[i], c)
            retained == SelectSeq(item.tags, LAMBDA tag : tag # tag_to_remove)
        IN  IF Len(retained) # Len(item.tags)
            THEN EncryptItem([item EXCEPT !.tags = retained, !.updated_at = t], c)
            ELSE rs[i]]

RenameTag(args) ==
    /\ Idle
    /\ IF IsBlank(args.new_tag_name)
       THEN /\ ret' = Ret("rename_tag", "InvalidInput")
            /\ UNCHANGED rows
       ELSE IF ~IsUnlocked(crypto)
       THEN /\ ret' = Ret("rename_tag", "VaultLocked")
            /\ UNCHANGED rows
       ELSE IF ~GetAllItemsOk(rows, crypto)
       THEN /\ ret' = Ret("rename_tag", "DecryptionFailed")
            /\ UNCHANGED rows
       ELSE /\ rows' = RenameTagInAllItems(rows, args.old_tag_name, args.new_tag_name, crypto, now)
            /\ ret' = Ret("rename_tag", "Ok")
    /\ UNCHANGED <<files, uuids>>
    /\ UNCHANGED ItemVars

DeleteTag(args) ==
    /\ Idle
    /\ IF ~IsUnlocked(crypto)
       THEN /\ ret' = Ret("delete_tag", "VaultLocked")
            /\ UNCHANGED rows
       ELSE IF ~GetAllItemsOk(rows, crypto)
       THEN /\ ret' = Ret("delete_tag", "DecryptionFailed")
            /\ UNCHANGED rows
       ELSE /\ rows' = RemoveTagFromAllItems(rows, args.tag_name, crypto, now)
            /\ ret' = Ret("delete_tag", "Ok")
    /\ UNCHANGED <<files, uuids>>
    /\ UNCHANGED ItemVars

(***************************************************************************)
(* The tags on their own: text items are added with tags, and tags are     *)
(* renamed and deleted while the clock advances.                           *)
(***************************************************************************)
TagUuids == 4
\* "work" and "old"
TagNames == {<<119>>, <<111>>}

TagNext ==
    \/ Tick /\ UNCHANGED lockVars
    \/ \E a \in InitArgs : InitializeVault(a.master_key, a.strength) /\ UNCHANGED lockVars
    \/ \E a \in [name : TextNames, content : Contents, item_type : {"text"}, parent_id : {None}, totp_secret : {None},
                  tags : {<<>>} \cup {<<x>> : x \in TagNames} \cup {t \in {<<x, y>> : x, y \in TagNames} : t[1] # t[2]}] :
          uuids + 2 <= TagUuids /\ AddTextItem(a) /\ UNCHANGED lockVars
    \/ \E a \in [old_tag_name : TagNames, new_tag_name : TagNames] : RenameTag(a) /\ UNCHANGED lockVars
    \/ \E a \in [tag_name : TagNames] : DeleteTag(a) /\ UNCHANGED lockVars

TagSpec == Init /\ [][TagNext]_vars

(***************************************************************************)
(* The soft-delete cascade over time: folders are added, deleted and       *)
(* restored, and the clock advances once, at any moment, to any later      *)
(* instant.                                                                *)
(***************************************************************************)
CascadeUuids == 3

CascadeNext ==
    \/ now = 0 /\ Tick /\ UNCHANGED lockVars
    \/ \E a \in InitArgs : InitializeVault(a.master_key, a.strength) /\ UNCHANGED lockVars
    \/ \E a \in [name : FolderNames, folder_type : {None},
               parent_id : {None} \cup {Some(rows[i].id) : i \in {Len(rows)} \cap DOMAIN rows}] :
          uuids + 1 <= CascadeUuids /\ AddFolder(a) /\ UNCHANGED lockVars
    \/ \E id \in KnownIds : DeleteItem(id) /\ UNCHANGED lockVars
    \/ \E id \in KnownIds : RestoreItem(id) /\ UNCHANGED lockVars
    \/ \E id \in KnownIds : RestoreItemToRoot(id) /\ UNCHANGED lockVars

CascadeSpec == Init /\ [][CascadeNext]_vars

(***************************************************************************)
(* The item commands against a vault that is locked and unlocked: every    *)
(* item command, with arguments that pass validation and arguments that do *)
(* not.                                                                    *)
(***************************************************************************)
LockedUuids == 2

ItemCommand ==
    LET names == TextNames \cup {<<ChSpace>>}
        parents == {None} \cup {Some(rows[i].id) : i \in {Len(rows)} \cap DOMAIN rows}
    IN
    \/ GetVaultItems(None)
    \/ GetAllVaultItems
    \/ GetDeletedItems
    \/ \E id \in KnownIds : GetItemContent(id)
    \/ \E a \in [name : names, content : Contents, item_type : {"text"}, tags : TagLists,
                  parent_id : parents, totp_secret : {None}] :
          uuids + 2 <= LockedUuids /\ AddTextItem(a)
    \/ \E a \in [name : names, parent_id : parents, folder_type : {None}] :
          uuids + 1 <= LockedUuids /\ AddFolder(a)
    \/ \E a \in [id : KnownIds, parent_id : {None}, name : names, content : Contents,
                  item_type : {"text"}, tags : {<<<<111>>>>}, totp_secret : {None}] : UpdateItem(a)
    \/ \E id \in KnownIds : DeleteItem(id)
    \/ \E id \in KnownIds : PermanentlyDeleteItem(id)
    \/ PermanentlyDeleteAllItems
    \/ \E id \in KnownIds : RestoreItem(id)
    \/ \E id \in KnownIds : RestoreItemToRoot(id)
    \/ \E a \in [old_tag_name : {<<111>>}, new_tag_name : {<<119>>, <<ChSpace>>}] : RenameTag(a)
    \/ \E a \in [tag_name : {<<111>>}] : DeleteTag(a)
    \/ \E a \in [parent_id : {None},
                  csv_content : {<<r>> : r \in [title : {None, Some(<<97>>)}, content : Contents,
                                                tags : TagLists, malformed : {FALSE}]}] :
          uuids + Len(a.csv_content) <= LockedUuids /\ ImportCsv(a)

LockedNext ==
    \/ \E a \in InitArgs : InitializeVault(a.master_key, a.strength) /\ UNCHANGED lockVars
    \/ \E a \in InitArgs : UnlockVault(a.master_key) /\ UNCHANGED lockVars
    \/ LockVault /\ UNCHANGED lockVars
    \/ ItemCommand /\ UNCHANGED lockVars

LockedSpec == Init /\ [][LockedNext]_vars

(***************************************************************************)
(* Listings: folders and text items with URL-like names are added at the   *)
(* root while the clock advances, and listed under every sort order.       *)
(***************************************************************************)
\* The comparator of get_items: folders first, then the requested order.
GetItemsCmp(sort_order, a, b) ==
    LET cmp(x, y) == IF x < y THEN -1 ELSE IF x > y THEN 1 ELSE 0 IN
    IF a.item_type = "folder" /\ b.item_type # "folder" THEN -1
    ELSE IF a.item_type # "folder" /\ b.item_type = "folder" THEN 1
    ELSE CASE sort_order = "CreatedAtDesc" -> cmp(b.created_at, a.created_at)
           [] sort_order = "CreatedAtAsc" -> cmp(a.created_at, b.created_at)
           [] sort_order = "NameAsc" -> StrCmp(CleanUrlForSorting(a.name), CleanUrlForSorting(b.name))
           [] sort_order = "NameDesc" -> StrCmp(CleanUrlForSorting(b.name), CleanUrlForSorting(a.name))
           [] sort_order = "UpdatedAtDesc" -> cmp(b.updated_at, a.updated_at)
           [] sort_order = "UpdatedAtAsc" -> cmp(a.updated_at, b.updated_at)

\* slice::sort_by, a stable sort, under GetItemsCmp: the last item goes behind
\* the items of the sorted rest that do not compare greater than it.
RECURSIVE SortBy(_, _)
SortBy(sort_order, items) ==
    IF items = <<>> THEN <<>>
    ELSE LET sorted == SortBy(sort_order, SubSeq(items, 1, Len(items) - 1))
             x == items[Len(items)]
             n == Cardinality({i \in DOMAIN sorted : GetItemsCmp(sort_order, x, sorted[i]) >= 0})
         IN  SubSeq(sorted, 1, n) \o <<x>> \o SubSeq(sorted, n + 1, Len(sorted))

\* get_items without type filter: the rows of the parent, decrypted under c
\* and sorted; order_by.unwrap_or_default() is CreatedAtDesc.
GetItems(rs, parent_id, order_by, c) ==
    LET selected == SelectByParent(rs, parent_id) IN
    SortBy(IF order_by = None THEN "CreatedAtDesc" ELSE Unwrap(order_by),
           [i \in 1..Len(selected) |-> RowToVaultItem(selected[i], c)])

ListingUuids == 5

\* The names "bb", "bwww.a", "https://c" and "Ab"; the folders "d" and "a".
ListingNext ==
    LET names == {<<98, 98>>, <<98, 119, 119, 119, 46, 97>>, HttpsPrefix \o <<99>>, <<65, 98>>}
        folders == {<<100>>, <<97>>}
    IN
    \/ now = 0 /\ Tick /\ UNCHANGED lockVars
    \/ \E a \in InitArgs : InitializeVault(a.master_key, a.strength) /\ UNCHANGED lockVars
    \/ \E a \in [name : names, content : Contents, item_type : {"text"}, tags : TagLists,
                 parent_id : {None}, totp_secret : {None}] :
          uuids + 2 <= ListingUuids /\ AddTextItem(a) /\ UNCHANGED lockVars
    \/ \E a \in [name : folders, parent_id : {None}, folder_type : {None}] :
          uuids + 1 <= ListingUuids /\ AddFolder(a) /\ UNCHANGED lockVars

ListingSpec == Init /\ [][ListingNext]_vars

(***************************************************************************)
(* The cascades as transactions: items with a tag are added in a small     *)
(* tree, deleted, purged, and their tag renamed and removed; each cascade  *)
(* may fail at any of its steps.                                           *)
(***************************************************************************)
RollbackUuids == 4

\* A transaction whose writes stay in the table when it is dropped.
RollbackKeepingStaged(rs, staged) == staged

\* The table after a transaction is dropped without commit (an error returned
\* through `?`): rusqlite rolls it back, the rows it wrote are not kept.
Rollback(rs, staged) == rs

\* A cascade of command op fails with a database (or encryption) error after
\* it wrote the rows staged inside its transaction; the payloads are not
\* touched before the commit.
TransactionFails(op, staged) ==
    /\ Idle
    /\ IsUnlocked(crypto)
    /\ rows' = Rollback(rows, staged)
    /\ ret' = Ret(op, "Database")
    /\ UNCHANGED <<files, uuids>>
    /\ UNCHANGED ItemVars

\* The tag cascades write item after item: a failure at item k comes after
\* the items before k were written (k past the last item: the commit fails).
\* The delete cascades write with one statement.
RollbackNext ==
    LET old == <<111>>
        work == <<119>>
        parents == {None} \cup {Some(rows[i].id) : i \in {Len(rows)} \cap DOMAIN rows}
        text_args == [name : TextNames, content : Contents, item_type : {"text"}, tags : {<<old>>},
                      parent_id : parents, totp_secret : {None}]
        Prefix(full, k) == [i \in 1..Len(rows) |-> IF i < k THEN full[i] ELSE rows[i]]
        renamed == RenameTagInAllItems(rows, old, work, crypto, now)
        removed == RemoveTagFromAllItems(rows, work, crypto, now)
    IN
    \/ \E a \in InitArgs : InitializeVault(a.master_key, a.strength) /\ UNCHANGED lockVars
    \/ \E a \in text_args : uuids + 2 <= RollbackUuids /\ AddTextItem(a) /\ UNCHANGED lockVars
    \/ \E id \in KnownIds : DeleteItem(id) /\ UNCHANGED lockVars
    \/ \E id \in KnownIds : PermanentlyDeleteItem(id) /\ UNCHANGED lockVars
    \/ RenameTag([old_tag_name |-> old, new_tag_name |-> work]) /\ UNCHANGED lockVars
    \/ DeleteTag([tag_name |-> work]) /\ UNCHANGED lockVars
    \/ \E id \in KnownIds : \E staged \in {rows, DeleteItemAndDescendants(rows, id, crypto, now)} :
          WorklistEnds(rows, id) /\ TransactionFails("delete_item", staged) /\ UNCHANGED lockVars
    \/ \E id \in KnownIds : \E staged \in {rows, PermanentlyDeleteItemAndDescendants(rows, id)} :
          WorklistEnds(rows, id) /\ TransactionFails("permanently_delete_item", staged) /\ UNCHANGED lockVars
    \/ \E k \in 1..(Len(rows) + 1) :
          GetAllItemsOk(rows, crypto) /\ TransactionFails("rename_tag", Prefix(renamed, k)) /\ UNCHANGED lockVars
    \/ \E k \in 1..(Len(rows) + 1) :
          GetAllItemsOk(rows, crypto) /\ TransactionFails("delete_tag", Prefix(removed, k)) /\ UNCHANGED lockVars

RollbackSpec == Init /\ [][RollbackNext]_vars

(***************************************************************************)
(* The failed-attempt counter: a vault is unlocked with right and wrong    *)
(* passphrases under every policy while the clock advances, its passphrase *)
(* is rotated (the vault holds no item, so the rotation rewrites only the  *)
(* token, the salt and the strength) and the process is restarted at any   *)
(* moment.                                                                 *)
(***************************************************************************)
AttemptsNext ==
    \/ Tick /\ UNCHANGED lockVars
    \/ \E a \in InitArgs : InitializeVault(a.master_key, a.strength) /\ UNCHANGED lockVars
    \/ \E p \in Passphrases : UnlockVault(p) /\ UNCHANGED lockVars
    \/ LockVault /\ UNCHANGED lockVars
    \/ GetLockoutStatus /\ UNCHANGED lockVars
    \/ \E c \in BruteForceConfigs : SetBruteForceConfig(c) /\ UNCHANGED lockVars
    \/ ResetFailedAttempts /\ UNCHANGED lockVars
    \/ \E a \in RotArgs : UpdateMasterKeyBegin(a) /\ UNCHANGED lockVars
    \/ UpdateMasterKeyToken /\ UNCHANGED lockVars
    \/ UpdateMasterKeySalt /\ UNCHANGED lockVars
    \/ UpdateMasterKeyFinish /\ UNCHANGED lockVars
    \/ UpdateMasterKeyIoError /\ UNCHANGED lockVars
    \/ Restart /\ UNCHANGED lockVars

AttemptsSpec == Init /\ [][AttemptsNext]_vars

(***************************************************************************)
(* The life of an item: a tagged text item is added, then updated, soft    *)
(* deleted, restored, retagged and permanently deleted, and the master key *)
(* is rotated, while the clock advances once, at any moment.               *)
(***************************************************************************)
ItemLifeUuids == 2

ItemLifeNext ==
    \/ now = 0 /\ Tick /\ UNCHANGED lockVars
    \/ \E a \in InitArgs : InitializeVault(a.master_key, a.strength) /\ UNCHANGED lockVars
    \/ \E a \in [name : TextNames, content : Contents, item_type : {"text"}, tags : {<<<<111>>>>},
                  parent_id : {None}, totp_secret : {None}] :
          uuids + 2 <= ItemLifeUuids /\ AddTextItem(a) /\ UNCHANGED lockVars
    \/ \E a \in [id : {rows[i].id : i \in 1..Len(rows)}, parent_id : {None}, name : {<<98>>}, content : Contents,
                  item_type : {"text"}, tags : {<<<<111>>>>}, totp_secret : {None}] :
          UpdateItem(a) /\ UNCHANGED lockVars
    \/ \E id \in KnownIds : DeleteItem(id) /\ UNCHANGED lockVars
    \/ \E id \in KnownIds : RestoreItem(id) /\ UNCHANGED lockVars
    \/ \E id \in KnownIds : RestoreItemToRoot(id) /\ UNCHANGED lockVars
    \/ \E id \in KnownIds : PermanentlyDeleteItem(id) /\ UNCHANGED lockVars
    \/ \E a \in [old_tag_name : {<<111>>}, new_tag_name : {<<119>>}] : RenameTag(a) /\ UNCHANGED lockVars
    \/ \E a \in [tag_name : {<<119>>}] : DeleteTag(a) /\ UNCHANGED lockVars
    \/ \E a \in [current_key : {"pw1"}, new_key : {"pw2"}, strength : {Some("Fast")}] :
          UpdateMasterKeyBegin(a) /\ UNCHANGED lockVars
    \/ UpdateMasterKeyRow /\ UNCHANGED lockVars
    \/ UpdateMasterKeyPayload /\ UNCHANGED lockVars
    \/ UpdateMasterKeyToken /\ UNCHANGED lockVars
    \/ UpdateMasterKeySalt /\ UNCHANGED lockVars
    \/ UpdateMasterKeyFinish /\ UNCHANGED lockVars

ItemLifeSpec == Init /\ [][ItemLifeNext]_vars

(***************************************************************************)
(* Validation: the commands that can return InvalidInput, called on a      *)
(* locked and on an unlocked vault with arguments inside and outside the   *)
(* limits: an empty name, a name of MaxNameLen + 1 characters, a tag of     *)
(* MaxTagLen + 1 characters, MaxTags + 1 tags, a file path that does not   *)
(* resolve or holds "..", an export format that is not supported.          *)
(***************************************************************************)
ValidationUuids == 2

ValidationNext ==
    LET long_name == [i \in 1..(MaxNameLen + 1) |-> 97]
        long_tag == [i \in 1..(MaxTagLen + 1) |-> 119]
        names == TextNames \cup {<<ChSpace>>, long_name}
        tags == {<<>>, <<long_tag>>, [i \in 1..(MaxTags + 1) |-> <<119>>]}
    IN
    \/ \E a \in InitArgs : InitializeVault(a.master_key, a.strength) /\ UNCHANGED lockVars
    \/ \E a \in InitArgs : UnlockVault(a.master_key) /\ UNCHANGED lockVars
    \/ LockVault /\ UNCHANGED lockVars
    \/ \E a \in [name : names, content : Contents \cup {<<>>}, item_type : {"text"}, tags : tags,
                  parent_id : {None}, totp_secret : {None}] :
          uuids + 2 <= ValidationUuids /\ AddTextItem(a) /\ UNCHANGED lockVars
    \/ \E a \in [name : names \cup {<<ChSlash>>}, parent_id : {None}, folder_type : {None}] :
          uuids + 1 <= ValidationUuids /\ AddFolder(a) /\ UNCHANGED lockVars
    \/ \E a \in [name : TextNames, file_path : {<<97>>, <<ChDot, ChDot, ChSlash, 97>>}, tags : {<<>>},
                  parent_id : {None}] :
          \E file \in {None, Some(<<120>>)} :
              uuids + 2 <= ValidationUuids /\ AddFileItem(a, file) /\ UNCHANGED lockVars
    \/ \E a \in [id : KnownIds, parent_id : {None}, name : names, content : Contents,
                  item_type : {"text"}, tags : tags, totp_secret : {None}] : UpdateItem(a) /\ UNCHANGED lockVars
    \/ \E a \in [old_tag_name : {<<119>>}, new_tag_name : {<<111>>, <<ChSpace>>}] : RenameTag(a) /\ UNCHANGED lockVars
    \/ \E a \in InitArgs : ExportVerify(a.master_key) /\ UNCHANGED lockVars
    \/ ExportRead /\ UNCHANGED lockVars
    \/ ExportReadUnsupported /\ UNCHANGED lockVars

ValidationSpec == Init /\ [][ValidationNext]_vars

(***************************************************************************)
(* The life of a vault: it is initialized under any passphrase and         *)
(* strength, unlocked and locked, given an item and a policy, reset with   *)
(* delete_vault and initialized again.                                     *)
(***************************************************************************)
LifecycleUuids == 2

LifecycleNext ==
    \/ \E a \in LimiterInitArgs : InitializeVault(a.master_key, a.strength) /\ UNCHANGED lockVars
    \/ \E p \in Passphrases : UnlockVault(p) /\ UNCHANGED lockVars
    \/ LockVault /\ UNCHANGED lockVars
    \/ \E c \in ConfigArgs : SetBruteForceConfig(c) /\ UNCHANGED lockVars
    \/ \E a \in TextArgs : uuids + 2 <= LifecycleUuids /\ AddTextItem(a) /\ UNCHANGED lockVars
    \/ \E p \in Passphrases : DeleteVault(p) /\ UNCHANGED lockVars

LifecycleSpec == Init /\ [][LifecycleNext]_vars

(***************************************************************************)
(* Properties.                                                             *)
(***************************************************************************)
Config == GetBruteForceConfig(meta)
Failed == GetFailedLoginAttempts(meta)
LastFailed == GetLastFailedAttemptTimestamp(meta)
\* Milliseconds from now to last_failed_timestamp + lockout_duration.
MsLeft == Unwrap(LastFailed) + Config.lockout_duration_minutes * SecondsPerMinute * MsPerSecond - now
WindowOpen == LastFailed # None /\ MsLeft > 0
LockedOut == Config.enabled /\ Failed >= Config.max_attempts /\ WindowOpen
Expired == Config.enabled /\ Failed >= Config.max_attempts /\ LastFailed # None /\ MsLeft <= 0

\* The keys the stored ciphertexts are under, and the keys the stored salt and strength derive.
KeysInUse ==
    UNION {RowKeys(rows[i]) : i \in 1..Len(rows)} \cup {files[f].k : f \in DOMAIN files} \cup {ct.k : ct \in verify}
StoredKeys == {DeriveKey(p, Unwrap(salt), GetKeyDerivationStrength(meta)) : p \in Passphrases}

\* C1: whenever no rotation is running, every row, every payload and the
\* verification token are under one single key, and that key derives from the
\* stored salt and strength.
C1_OneKeyOutsideRotation ==
    (Idle /\ IsInitialized) => \E k \in StoredKeys : KeysInUse \subseteq {k}

\* C2: a rotation from old to a different new passphrase keeps every payload
\* plaintext at each rewrite and, when it succeeds, leaves the items it read at
\* its start readable with the engine it leaves, unlock(new) succeeding and
\* unlock(old) failing with InvalidMasterKey.
C2_RotationPreserves ==
    [][/\ UpdateMasterKeyPayload =>
            /\ DOMAIN files' = DOMAIN files
            /\ \A f \in DOMAIN files : files'[f].pt = files[f].pt
       /\ (UpdateMasterKeyFinish /\ master # Some(rot.new_key)) =>
            \E old \in Passphrases, new \in Passphrases, items \in {rot.all_items} :
                /\ master = Some(old) /\ new = rot.new_key
                /\ GetAllItemsOk(rows', crypto')
                /\ GetAllItemsRecursive(rows', crypto') = items
                /\ \A i \in 1..Len(items) :
                       items[i].data_path # <<>> => ReadEncryptedFileOk(files', items[i].data_path, crypto')
                /\ (UnlockOutcome(new).ret.res)' = "Ok"
                /\ (UnlockOutcome(old).ret.res)' = "InvalidMasterKey"]_vars

\* What a passphrase command returns once it has decrypted the verification token.
VerifiedResults == {"Ok", "InvalidMasterKey", "DecryptionFailed", "running", "verified"}

\* C3: while the account is locked out, no command that takes a passphrase
\* (unlock_vault, update_master_key, export_decrypted_vault, delete_vault)
\* gets as far as decrypting the verification token.
C3_LockoutBeforeVerification ==
    [][(/\ LockedOut
        /\ \/ \E p \in Passphrases : UnlockVault(p)
           \/ \E a \in RotArgs : UpdateMasterKeyBegin(a)
           \/ \E p \in Passphrases : ExportVerify(p)
           \/ \E p \in Passphrases : DeleteVault(p))
       => ret'.res \notin VerifiedResults]_vars

C5_SelfHealing ==
    [][Expired =>
        /\ LET chk == CheckAndUpdateLockout(meta, now) IN
           /\ ~chk.status.is_locked_out
           /\ chk.status.failed_attempts = 0
           /\ GetFailedLoginAttempts(chk.meta) = 0
           /\ GetLastFailedAttemptTimestamp(chk.meta) = None
        /\ GetLockoutStatus =>
            /\ ret'.val # None
            /\ ~Unwrap(ret'.val).is_locked_out
            /\ Unwrap(ret'.val).failed_attempts = 0
            /\ GetFailedLoginAttempts(meta') = 0
            /\ GetLastFailedAttemptTimestamp(meta') = None
        /\ \A p \in Passphrases : UnlockVault(p) => ret'.res # "InvalidInput"]_vars

\* get_lockout_status has just cleared an expired lockout.
C5_Witness ==
    /\ ret.op = "get_lockout_status"
    /\ streak.healed
    /\ ~Unwrap(ret.val).is_locked_out
    /\ Unwrap(ret.val).failed_attempts = 0
    /\ Failed = 0 /\ LastFailed = None
    /\ now >= MsPerMinute

\* C6: a get_lockout_status or an unlock_vault whose lockout check reports
\* locked-out returns that status and leaves the counter, the timestamp, the
\* configuration (the meta table), the items, the payloads and the engine as
\* they were.
C6_LockedOutCheckChangesNothing ==
    [][(/\ CheckAndUpdateLockout(meta, now).status.is_locked_out
        /\ GetLockoutStatus \/ \E p \in Passphrases : UnlockVault(p))
       => /\ ret'.val # None
          /\ Unwrap(ret'.val).is_locked_out
          /\ UNCHANGED <<meta, rows, files, crypto, salt, verify>>]_vars

\* An unlock was rejected for lockout on a vault that holds an item.
C6_Witness ==
    /\ ret.op = "unlock_vault" /\ ret.res = "InvalidInput"
    /\ Unwrap(ret.val).is_locked_out
    /\ LockedOut
    /\ rows # <<>>

\* C7: on an initialized vault that is not locked out, unlock(p) succeeds and
\* leaves the engine Unlocked exactly when p is the master passphrase; any
\* other p fails with InvalidMasterKey and leaves the engine Locked.
C7_UnlockIffMaster ==
    (Idle /\ IsInitialized /\ master # None /\ ~CheckAndUpdateLockout(meta, now).status.is_locked_out) =>
        \A p \in Passphrases :
            LET out == UnlockOutcome(p) IN
            IF master = Some(p)
            THEN out.ret.res = "Ok" /\ IsUnlocked(out.crypto)
            ELSE out.ret.res = "InvalidMasterKey" /\ ~IsUnlocked(out.crypto)

\* Threads t and u each wait for a lock the other holds.
CircularWait(t, u) ==
    /\ At(t) = "acqS" /\ storageLock = u
    /\ At(u) = "acqC" /\ cryptoLock = t

\* C8: no handler requests the storage lock while it holds the crypto lock,
\* and no two handlers each wait for a lock the other holds.
C8_LockOrder ==
    /\ \A t \in Threads : ~(cryptoLock = t /\ At(t) = "acqS")
    /\ \A t \in Threads, u \in Threads : ~CircularWait(t, u)

\* Thread t runs update_master_key and is at its first read, at a re-encryption or at its swap.
InRotation(t) == thr[t].op = "update_master_key" /\ At(t) \in {"first_read", "reencrypt", "swap"}
\* Thread u takes a step of its handler: a lock operation or a step on the state.
Executes(u) == At(u) \notin {"none", "return"} /\ thr'[u] # thr[u]

\* C9: from its first read to its swap update_master_key holds the storage
\* lock and the crypto lock, and no other thread takes a step of a handler.
C9_RotationExclusive ==
    [][\A t \in Threads :
        InRotation(t) =>
            /\ storageLock = t /\ cryptoLock = t
            /\ \A u \in Threads \ {t} : ~Executes(u)]_vars

\* A rotation is between its first read and its swap while another handler waits for a lock.
C9_Witness ==
    \E t \in Threads, u \in Threads :
        /\ t # u
        /\ InRotation(t) /\ At(t) = "swap"
        /\ At(u) \in {"acqS", "acqC"}

\* C10: a running rotation leaves the primary engine as it was at the call; a
\* rotation that returns an error leaves it as it was at the call; the one
\* change is the final replacement by the engine holding the new key.
C10_EngineUntouched ==
    [][/\ rot'.pc \in RotSteps => crypto' = rot'.engine_before
       /\ ((\E a \in RotArgs : UpdateMasterKeyBegin(a)) /\ rot'.pc = "idle") => crypto' = crypto
       /\ (rot.pc \in RotSteps /\ rot'.pc = "idle" /\ ret'.res # "Ok") => crypto' = rot.engine_before
       /\ UpdateMasterKeyFinish => crypto' = rot.temp_crypto_for_reencrypt]_vars


\* The stored items as the unlocked engine reads them.
Items == [i \in 1..Len(rows) |-> RowToVaultItem(rows[i], crypto)]
\* x is id or below it: following parent_id upwards from x reaches id.
RECURSIVE Under(_, _, _, _)
Under(rs, id, x, n) ==
    \/ x = id
    \/ /\ n > 0
       /\ \E i \in 1..Len(rs) :
             rs[i].id = x /\ rs[i].parent_id # None /\ Under(rs, id, Unwrap(rs[i].parent_id), n - 1)
InSubtree(rs, id, x) == Under(rs, id, x, Len(rs))

\* C11: a delete_item(id) that succeeds on an existing item leaves id and every
\* transitive descendant with a non-null deleted_at, the same for all of them;
\* every item outside the subtree keeps its deleted_at, and no other field of
\* any item (and no payload) changes.
C11_SoftDeleteCascade ==
    [][\A id \in KnownIds :
          (ret'.op = "delete_item" /\ DeleteItem(id) /\ IsUnlocked(crypto) /\ HasRow(rows, id)) =>
              /\ ret'.res = "Ok"
              /\ Len(rows') = Len(rows)
              /\ files' = files
              /\ \E stamp \in Instants :
                    \A i \in 1..Len(rows) :
                        /\ [Items'[i] EXCEPT !.deleted_at = Items[i].deleted_at] = Items[i]
                        /\ Items'[i].deleted_at =
                              IF InSubtree(rows, id, rows[i].id) THEN Some(stamp) ELSE Items[i].deleted_at]_vars

\* A folder and its child deleted after the clock moved, both stamped with the
\* time of the deletion, next to a live third item.
C11_Witness ==
    /\ ret.op = "delete_item" /\ ret.res = "Ok" /\ now > 0
    /\ \E i, j, k \in 1..Len(rows) :
          /\ rows[j].parent_id = Some(rows[i].id)
          /\ Items[i].deleted_at = Some(now) /\ Items[j].deleted_at = Some(now)
          /\ Items[k].deleted_at = None

\* The payloads the rows of the subtree of id reference.
SubtreePaths(id) == {Items[i].data_path : i \in {j \in 1..Len(rows) : InSubtree(rows, id, rows[j].id)}} \ {<<>>}
\* What a successful permanently_delete_item(id) does to the rows, and to the
\* payloads outside the subtree of id.
PermanentDeleteFrame(id) ==
    /\ ret'.res = "Ok"
    /\ rows' = SelectSeq(rows, LAMBDA r : ~InSubtree(rows, id, r.id))
    /\ DOMAIN files' \subseteq DOMAIN files
    /\ \A f \in DOMAIN files \ SubtreePaths(id) : f \in DOMAIN files' /\ files'[f] = files[f]

C13_RestoreOnlyItem ==
    [][\A id \in KnownIds :
          (ret'.op = "restore_item" /\ RestoreItem(id) /\ IsUnlocked(crypto)) =>
              /\ ret'.res = "Ok" /\ ret'.val = Some(HasRow(rows, id))
              /\ Len(rows') = Len(rows)
              /\ files' = files
              /\ \A i \in 1..Len(rows) :
                    rows'[i] = IF rows[i].id = id THEN [rows[i] EXCEPT !.deleted_at = None] ELSE rows[i]]_vars

\* A, B under A and C under B were deleted and B alone restored: A and C are
\* still deleted and B is live under A.
C13_Witness ==
    /\ ret.op = "restore_item" /\ ret.val = Some(TRUE)
    /\ \E i, j, k \in 1..Len(rows) :
          /\ rows[i].parent_id = None /\ rows[i].deleted_at # None
          /\ rows[j].parent_id = Some(rows[i].id) /\ rows[j].deleted_at = None
          /\ rows[k].parent_id = Some(rows[j].id) /\ rows[k].deleted_at # None

\* C14: restore_item_to_root(id) sets deleted_at and parent_id of the item id to
\* null and changes no other field and no other item, so that the item is
\* among the rows the root listing selects.
C14_RestoreToRoot ==
    [][\A id \in KnownIds :
          (ret'.op = "restore_item_to_root" /\ RestoreItemToRoot(id) /\ IsUnlocked(crypto)) =>
              /\ ret'.res = "Ok" /\ ret'.val = Some(HasRow(rows, id))
              /\ Len(rows') = Len(rows)
              /\ files' = files
              /\ \A i \in 1..Len(rows) :
                    rows'[i] = IF rows[i].id = id
                               THEN [rows[i] EXCEPT !.deleted_at = None, !.parent_id = None]
                               ELSE rows[i]
              /\ HasRow(rows, id) => HasRow(SelectByParent(rows', None), id)]_vars

\* An item deleted with its parent and its child is restored to the root: it
\* is live without a parent, next to its former parent and its child, both
\* still deleted.
C14_Witness ==
    /\ ret.op = "restore_item_to_root" /\ ret.val = Some(TRUE)
    /\ \E i, j, k \in 1..Len(rows) :
          /\ i < j
          /\ rows[i].parent_id = None /\ rows[i].deleted_at # None
          /\ rows[j].parent_id = None /\ rows[j].deleted_at = None
          /\ rows[k].parent_id = Some(rows[j].id) /\ rows[k].deleted_at # None
          /\ Items[k].deleted_at = Items[i].deleted_at

TagSet(tags) == {tags[k] : k \in 1..Len(tags)}

\* C15: for every item and tags old # new, after rename_tag(old, new) the tag
\* list of an item that contained old holds no occurrence of old and at most
\* one occurrence of new, whatever the order of its tags, and its updated_at
\* is the time of the rename.
C15_RenameDedup ==
    [][\A a \in [old_tag_name : TagNames, new_tag_name : TagNames] :
          (a.old_tag_name # a.new_tag_name /\ RenameTag(a) /\ IsUnlocked(crypto)) =>
              \A i \in 1..Len(rows) :
                  a.old_tag_name \in TagSet(Items[i].tags) =>
                      /\ a.old_tag_name \notin TagSet(Items'[i].tags)
                      /\ Cardinality({k \in 1..Len(Items'[i].tags) : Items'[i].tags[k] = a.new_tag_name}) <= 1
                      /\ Items'[i].updated_at = now]_vars

\* What C16 says of one tag command: an item whose tag set is the same before
\* and after keeps every field, updated_at included; an item whose tag set
\* differs changes in its tags and its updated_at only, and its updated_at
\* becomes the time of the command.
TagFrame ==
    /\ Len(rows') = Len(rows)
    /\ \A i \in 1..Len(rows) :
          IF TagSet(Items'[i].tags) = TagSet(Items[i].tags)
          THEN Items'[i] = Items[i]
          ELSE /\ [Items'[i] EXCEPT !.tags = Items[i].tags, !.updated_at = Items[i].updated_at] = Items[i]
               /\ Items'[i].updated_at = now

\* C16: rename_tag and delete_tag rewrite only the items whose tag set differs
\* before and after; the others, which do not carry the tag or are renamed to
\* the same name, keep their updated_at and every other field.
C16_TagOpsRewriteOnlyChanged ==
    [][/\ \A a \in [old_tag_name : TagNames, new_tag_name : TagNames] :
             (RenameTag(a) /\ IsUnlocked(crypto)) => TagFrame
       /\ \A a \in [tag_name : TagNames] :
             (DeleteTag(a) /\ IsUnlocked(crypto)) => TagFrame]_vars

\* C17: in every reachable state the parent_id relation is acyclic: no item is
\* its own parent and no item is found by following parent_id upwards from
\* its parent.
C17_ParentAcyclic ==
    \A i \in 1..Len(rows) : \A p \in rows[i].parent_id : ~InSubtree(rows, rows[i].id, p)

\* C18: in every reachable state the parent_id of each item is null or the id
\* of an existing row.
C18_ParentExists ==
    \A i \in 1..Len(rows) : \A p \in rows[i].parent_id : HasRow(rows, p)

\* C19: in every state between two commands, also after a command that failed
\* part-way, each payload file is referenced by the data_path of exactly one
\* row and each row with a non-empty data_path has its payload file.
C19_PayloadRowBijection ==
    /\ \A f \in DOMAIN files : Cardinality({i \in 1..Len(rows) : rows[i].data_path.pt = f}) = 1
    /\ \A i \in 1..Len(rows) : rows[i].data_path.pt # <<>> => rows[i].data_path.pt \in DOMAIN files

\* C20 as stated: while the engine is Locked every item command fails with
\* VaultLocked and leaves rows, payloads and settings unchanged; after lock()
\* the engine is Locked whatever it was before.
C20_LockedFailsVaultLocked ==
    [][/\ (~IsUnlocked(crypto) /\ ItemCommand) =>
             (ret'.res = "VaultLocked" /\ UNCHANGED <<rows, files, meta, salt, verify>>)
       /\ LockVault => ~IsUnlocked(crypto')]_vars

\* The commands that validate their arguments before they take the locks.
ValidatingCommands == {"add_text_item", "add_folder", "update_item", "rename_tag"}

\* C20, amended: while the engine is Locked every item command fails and
\* leaves rows, payloads and settings unchanged; it fails with VaultLocked,
\* except that add_item (text, folder), update_item and rename_tag called with
\* arguments that do not pass validation fail with InvalidInput, the
\* validation coming before the lock check. After lock() the engine is
\* Locked whatever it was before.
C20_LockedFails ==
    [][/\ (~IsUnlocked(crypto) /\ ItemCommand) =>
             /\ \/ ret'.res = "VaultLocked"
                \/ ret'.res = "InvalidInput" /\ ret'.op \in ValidatingCommands
             /\ UNCHANGED <<rows, files, meta, salt, verify>>
       /\ LockVault => ~IsUnlocked(crypto')]_vars

\* The vault holds an item and has been locked, and a delete_item on it was
\* refused.
C20_Witness ==
    /\ ~IsUnlocked(crypto) /\ Len(rows) > 0 /\ rows[1].deleted_at = None
    /\ ret.op = "delete_item" /\ ret.res = "VaultLocked"

\* C21: initialize_vault on a vault whose salt and verification token are both
\* present fails with VaultAlreadyInitialized and leaves salt, token, settings,
\* items, payloads and the engine as they were; on an uninitialized vault it
\* leaves salt and token present, the engine Unlocked, the given strength (the
\* default one when none is given) and the default brute-force policy stored,
\* and the failed-attempt counter at 0 with no timestamp.
C21_Initialize ==
    [][\A a \in LimiterInitArgs :
          (ret'.op = "initialize_vault" /\ InitializeVault(a.master_key, a.strength)) =>
              IF IsInitialized
              THEN /\ ret'.res = "VaultAlreadyInitialized"
                   /\ UNCHANGED <<salt, verify, meta, rows, files, crypto>>
              ELSE /\ ret'.res = "Ok"
                   /\ salt' # None /\ verify' # None
                   /\ IsUnlocked(crypto')
                   /\ GetMetaValue(meta', "kdf_strength") =
                          Some(IF a.strength = None THEN DefaultStrength ELSE Unwrap(a.strength))
                   /\ GetMetaValue(meta', "brute_force_config") = Some(ToText(BruteForceConfigDefault))
                   /\ GetFailedLoginAttempts(meta') = 0
                   /\ GetLastFailedAttemptTimestamp(meta') = None]_vars

\* An initialize_vault was refused on a vault that holds an item and has
\* counted a failed attempt.
C21_Witness ==
    /\ ret.op = "initialize_vault" /\ ret.res = "VaultAlreadyInitialized"
    /\ IsInitialized /\ rows # <<>> /\ Failed > 0

\* C22: on an initialized vault delete_vault(p) with the master passphrase
\* leaves no item row, no setting, no payload file, no salt and no
\* verification token, and the engine Locked; with any other passphrase it
\* fails with InvalidMasterKey and leaves all of these as they were.
C22_ResetVault ==
    [][\A p \in Passphrases :
          (ret'.op = "delete_vault" /\ DeleteVault(p) /\ IsInitialized) =>
              IF master = Some(p)
              THEN /\ ret'.res = "Ok"
                   /\ rows' = <<>> /\ meta' = EmptyMeta /\ files' = NoFiles
                   /\ salt' = None /\ verify' = None
                   /\ ~IsInitialized'
                   /\ ~IsUnlocked(crypto')
              ELSE /\ ret'.res = "InvalidMasterKey"
                   /\ UNCHANGED <<rows, meta, files, salt, verify, crypto>>]_vars

\* C23: a command that returns InvalidInput leaves rows, payloads, settings
\* (the failed-attempt counter among them), salt, token and the engine's lock
\* state and key as they were before the call.
C23_InvalidInputChangesNothing ==
    [][ret'.res = "InvalidInput" => UNCHANGED <<rows, files, meta, salt, verify, crypto>>]_vars

\* C24: every stored item has a name of at most 255 characters, at most 20
\* tags, and tags of at most 50 characters each.
C24_StoredItemsWithinLimits ==
    \A i \in 1..Len(rows) :
        LET tags == ParseText(rows[i].tags.pt) IN
        /\ Len(rows[i].name.pt) <= MaxNameLen
        /\ Len(tags) <= MaxTags
        /\ \A k \in 1..Len(tags) : Len(tags[k]) <= MaxTagLen

\* The plaintext of the fields of a row.
Plain(row) ==
    [id |-> row.id, parent_id |-> row.parent_id, name |-> row.name.pt, item_type |-> row.item_type.pt,
     data_path |-> row.data_path.pt, folder_type |-> {ct.pt : ct \in row.folder_type}, tags |-> row.tags.pt,
     created_at |-> row.created_at.pt, updated_at |-> row.updated_at.pt,
     deleted_at |-> {ct.pt : ct \in row.deleted_at}, totp_secret |-> {ct.pt : ct \in row.totp_secret}]

\* C25: a step that changes a field of an existing item (update_item, soft
\* delete and its cascade, restore_item, restore_item_to_root, rename_tag,
\* delete_tag) leaves the updated_at of that item at the time of the step.
C25_UpdatedAtRefreshed ==
    [][\A i \in 1..Len(rows) : \A j \in 1..Len(rows') :
          (rows'[j].id = rows[i].id /\ Plain(rows'[j]) # Plain(rows[i])) =>
              rows'[j].updated_at.pt = ToText(now)]_vars

\* C26: a row keeps its id and its created_at from its creation to its
\* permanent deletion: a step that removes no row leaves every row in its
\* place with its id, and a row present before and after a step has the
\* same created_at, under update_item, soft delete, restore, tag rename and
\* removal and every step of a master-key rotation.
C26_IdAndCreatedAtImmutable ==
    [][/\ Len(rows') >= Len(rows) => \A i \in 1..Len(rows) : rows'[i].id = rows[i].id
       /\ \A i \in 1..Len(rows) : \A j \in 1..Len(rows') :
              rows'[j].id = rows[i].id => rows'[j].created_at.pt = rows[i].created_at.pt]_vars

\* An item created at time 0 was updated after the clock moved, and a rotation
\* has then rewritten it under the new key.
C26_Witness ==
    /\ ret.op = "update_master_key" /\ ret.res = "Ok" /\ now > 0
    /\ \E i \in 1..Len(rows) :
          /\ rows[i].created_at.pt = ToText(0)
          /\ rows[i].updated_at.pt = ToText(now)
          /\ rows[i].created_at.k = Unwrap(crypto.key)
          /\ rows[i].created_at.k[1] = "pw2"

\* C27: the failed-attempt counter increases only in an unlock_vault that
\* decrypted the verification token without success and returns
\* InvalidMasterKey, and then by exactly 1 with the last-failed timestamp set
\* to the current time; no other command and no other outcome of unlock_vault
\* increases it.
C27_CounterIncreasesOnFailedVerification ==
    [][Failed' > Failed =>
          /\ ret'.op = "unlock_vault" /\ ret'.res = "InvalidMasterKey"
          /\ \E p \in Passphrases : UnlockVault(p)
          /\ Failed' = Failed + 1
          /\ LastFailed' = Some(now)]_vars

\* A second wrong passphrase has been counted after the clock moved.
C27_Witness ==
    /\ ret.op = "unlock_vault" /\ ret.res = "InvalidMasterKey"
    /\ Failed = 2 /\ LastFailed = Some(now) /\ now > 0

\* C28: after an unlock_vault that verified the passphrase, and after a
\* set_brute_force_config with enabled = false, the failed-attempt counter is
\* 0 and the last-failed timestamp is cleared.
C28_CounterReset ==
    [][/\ (ret'.op = "unlock_vault" /\ ret'.res = "Ok") => (Failed' = 0 /\ LastFailed' = None)
       /\ \A c \in BruteForceConfigs :
              (~c.enabled /\ ret'.op = "set_brute_force_config" /\ SetBruteForceConfig(c)) =>
                  (Failed' = 0 /\ LastFailed' = None)]_vars

\* The right passphrase has unlocked the vault after the clock moved and
\* wrong passphrases had been tried: nothing is left of the failed attempts.
C28_Witness ==
    /\ ret.op = "unlock_vault" /\ ret.res = "Ok" /\ now > 0
    /\ GetMetaValue(meta, "failed_login_attempts") = Some(ToText(0))
    /\ GetMetaValue(meta, "last_failed_attempt_timestamp") = Some(<<>>)
    /\ Config.max_attempts = 1

\* C29: while the policy has enabled = false the lockout check, at any time
\* and whatever the counter and the timestamp, reports not-locked-out, leaves
\* the stored counter and timestamp as they are and returns the stored
\* counter; unlock_vault with the master passphrase, when no other command
\* is running, succeeds.
C29_DisabledNeverLocksOut ==
    ~Config.enabled =>
        /\ \A t \in Instants :
              LET chk == CheckAndUpdateLockout(meta, t) IN
              /\ ~chk.status.is_locked_out
              /\ chk.meta = meta
              /\ chk.status.failed_attempts = Failed
        /\ Idle => \A p \in master : UnlockOutcome(p).ret.res = "Ok"

\* C30: a restart leaves the engine Locked and the lockout as it was: a
\* lockout check made after it, at any time, returns the status (locked-out
\* or not, failed attempts, seconds left) and leaves the settings that the
\* same check would without the restart.
C30_LockoutSurvivesRestart ==
    [][Restart =>
          /\ ~IsUnlocked(crypto')
          /\ \A t \in Instants : CheckAndUpdateLockout(meta', t) = CheckAndUpdateLockout(meta, t)]_vars

\* The process has restarted during a lockout: the account is still locked out.
C30_Witness ==
    /\ ret.op = "main" /\ master # None
    /\ LockedOut
    /\ CheckAndUpdateLockout(meta, now).status.is_locked_out
    /\ CheckAndUpdateLockout(meta, now).status.failed_attempts = Failed

\* C31: a permanently_delete_item(id) after which a payload of the subtree is
\* still on disk, because its shredding or its unlinking failed, returns
\* success all the same, and no row of the subtree of id is left: the failure
\* neither brings a row back nor becomes the result of the command.
C31_PayloadFailureKeepsDeletion ==
    [][\A id \in KnownIds :
          (/\ ret'.op = "permanently_delete_item" /\ PermanentlyDeleteItem(id) /\ IsUnlocked(crypto)
           /\ DOMAIN files' \cap SubtreePaths(id) # {}) =>
              /\ ret'.res = "Ok"
              /\ \A i \in 1..Len(rows') : ~InSubtree(rows, id, rows'[i].id)
              /\ \A i \in 1..Len(rows) : InSubtree(rows, id, rows[i].id) \/ HasRow(rows', rows[i].id)]_vars

\* A folder and the text item under it have been deleted for good; the
\* payload of the item was overwritten and could not be unlinked, and stays
\* behind without a row.
C31_Witness ==
    /\ ret.op = "permanently_delete_item" /\ ret.res = "Ok"
    /\ uuids = TreeUuids /\ rows = <<>>
    /\ \E f \in DOMAIN files : files[f] = Shredded

\* The steps the first command thread has taken in its command.
Done == SubSeq(thr[1].path, 1, thr[1].ip - 1)
\* The overwrites and syncs of a complete shredding, in order.
ShredOrder ==
    <<"write 0x00", "sync", "write 0xFF", "sync", "write 0xAA", "sync", "write 0x55", "sync",
      "write random", "sync">>
\* The operations on the payload file that failed.
FileFailures ==
    {"open failed", "flush failed", "sync failed"} \cup {ShredOrder[i] \o " failed" : i \in DOMAIN ShredOrder}
Unlinks == {"unlink", "unlink failed"}
\* The overwrites and syncs among the first n steps taken.
Overwrites(n) == SelectSeq(SubSeq(Done, 1, n), LAMBDA e : \E i \in DOMAIN ShredOrder : e = ShredOrder[i])

\* C32, the part on the payloads: permanently_delete_all_items removes a
\* payload as permanently_delete_item does: the rows are deleted and the
\* transaction committed before the payload is touched, and the payload is
\* unlinked only after the shred passes have overwritten it. (That the rows
\* removed are exactly those with a non-null deleted_at is the part on the
\* rows.)
C32_PurgeAllShredsAfterCommit ==
    thr[1].op = "permanently_delete_all_items" =>
        \A i \in DOMAIN Done :
            Done[i] \in Unlinks =>
                /\ \E j \in 1..(i - 1) : Done[j] = "commit"
                /\ Overwrites(i - 1) = ShredOrder

\* C33: on the payload permanently_delete_item removes, the overwrites run in
\* the order 0x00, 0xFF, 0xAA, 0x55, random bytes, each followed by its sync
\* before anything else is written; the unlink is attempted once, after all of
\* them and after the last sync; when an operation of a pass failed, the
\* passes stop there and one more overwrite, with the zero pattern, is
\* attempted before the unlink.
C33_ShredThenUnlink ==
    thr[1].op = "permanently_delete_item" =>
        LET failures == {i \in DOMAIN Done : Done[i] \in FileFailures}
            first_failure == IF failures = {} THEN Len(Done) + 1
                             ELSE CHOOSE i \in failures : \A j \in failures : i <= j
            passes == Overwrites(first_failure - 1)
            unlinks == {i \in DOMAIN Done : Done[i] \in Unlinks}
        IN  /\ passes = SubSeq(ShredOrder, 1, Len(passes))
            /\ Cardinality(unlinks) <= 1
            /\ \A u \in unlinks :
                  LET fallback == SubSeq(Done, first_failure + 1, u) IN
                  /\ u = Len(Done) \/ Done[u + 1] = "relC"
                  /\ IF failures = {} THEN passes = ShredOrder
                     ELSE /\ fallback # <<>> /\ fallback[1] \in {"open", "open failed"}
                          /\ Cardinality({i \in DOMAIN fallback : fallback[i] \in {"open", "open failed"}}) = 1
                          /\ \A i \in DOMAIN fallback :
                                fallback[i] \in {"open", "open failed", "write 0x00", "write 0x00 failed",
                                                 "flush", "flush failed", "sync", "sync failed"} \cup Unlinks

\* The third pass failed at its sync, the zero-pattern overwrite was made in
\* its place, and the file has been unlinked.
C33_Witness ==
    /\ thr[1].op = "permanently_delete_item"
    /\ \E i \in DOMAIN Done : Done[i] = "sync failed" /\ i + 5 \in DOMAIN Done /\ Done[i + 5] = "unlink"
    /\ Overwrites(Len(Done)) = SubSeq(ShredOrder, 1, 5) \o <<"write 0x00", "sync">>

\* C34: a soft delete, a permanent delete, a tag rename or a tag removal that
\* fails leaves every row as it was; one that succeeds changes the rows in
\* the one step that commits it, so that between two steps no subtree has
\* the change on some of its rows only: after a soft delete every row of the
\* subtree is deleted, after a permanent delete none is left.
C34_CascadesAllOrNothing ==
    [][ret'.op \in {"delete_item", "permanently_delete_item", "rename_tag", "delete_tag"} =>
          /\ ret'.res # "Ok" => rows' = rows /\ files' = files
          /\ \A id \in KnownIds :
                (ret'.op = "delete_item" /\ ret'.res = "Ok" /\ DeleteItem(id)) =>
                    \A i \in 1..Len(rows) : InSubtree(rows, id, rows[i].id) => rows'[i].deleted_at # None
          /\ \A id \in KnownIds :
                (ret'.op = "permanently_delete_item" /\ ret'.res = "Ok" /\ PermanentlyDeleteItem(id)) =>
                    \A i \in 1..Len(rows') : ~InSubtree(rows, id, rows'[i].id)]_vars

\* A tag rename has failed in a vault where two items carry the tag: both
\* still carry it.
C34_Witness ==
    /\ ret = Ret("rename_tag", "Database")
    /\ Len(rows) = 2
    /\ \A i \in 1..Len(rows) : Items[i].tags = <<<<111>>>>

\* C35: in every listing (get_items for any parent and any of the six sort
\* orders, and get_all_items_recursive) every folder comes before every
\* non-folder; within the folders and within the non-folders the order follows
\* the requested sort order, and the recursive listing is by cleaned name
\* ascending, the cleaned name being the name without a leading https://,
\* http:// or www., lower-cased.
C35_ListingOrder ==
    (IsUnlocked(crypto) /\ GetAllItemsOk(rows, crypto)) =>
        LET Strip(s, pat) == IF Len(s) >= Len(pat) /\ SubSeq(s, 1, Len(pat)) = pat
                             THEN SubSeq(s, Len(pat) + 1, Len(s)) ELSE s
            Cleaned(name) == ToLowercase(Strip(Strip(Strip(name, HttpsPrefix), HttpPrefix), WwwPrefix))
            InOrder(o, a, b) ==
                CASE o = "CreatedAtDesc" -> a.created_at >= b.created_at
                  [] o = "CreatedAtAsc" -> a.created_at <= b.created_at
                  [] o = "NameAsc" -> StrCmp(Cleaned(a.name), Cleaned(b.name)) <= 0
                  [] o = "NameDesc" -> StrCmp(Cleaned(a.name), Cleaned(b.name)) >= 0
                  [] o = "UpdatedAtDesc" -> a.updated_at >= b.updated_at
                  [] o = "UpdatedAtAsc" -> a.updated_at <= b.updated_at
            Ordered(l, o) ==
                \A i, j \in DOMAIN l :
                    i < j => /\ l[j].item_type = "folder" => l[i].item_type = "folder"
                             /\ (l[i].item_type = "folder") = (l[j].item_type = "folder") => InOrder(o, l[i], l[j])
        IN  /\ \A p \in {None} \cup {Some(id) : id \in KnownIds} :
                  \A o \in {"CreatedAtDesc", "CreatedAtAsc", "NameAsc", "NameDesc", "UpdatedAtDesc", "UpdatedAtAsc"} :
                      Ordered(GetItems(rows, p, Some(o), crypto), o)
            /\ Ordered(GetAllItemsRecursive(rows, crypto), "NameAsc")

\* C36: in every reachable state and for every id the worklist of delete_item
\* and permanently_delete_item empties: following parent_id downwards from
\* id never comes back to id, also after update_item changed parent_id
\* values.
C36_CascadeTerminates ==
    \A id \in KnownIds : WorklistEnds(rows, id)

\* C37: whenever no command is running and the engine is Unlocked on an
\* initialized vault, the key the engine holds is the key the verification
\* token, every row and every payload are under.
C37_UnlockedKeyIsVaultKey ==
    (Idle /\ exp = None /\ IsInitialized /\ IsUnlocked(crypto)) => KeysInUse \subseteq crypto.key

\* C38: with the policy enabled and not changed by the step, a step that
\* starts with the stored failed-attempt counter at most max_attempts ends
\* with it at most max_attempts: at max_attempts, within the window, every
\* unlock is rejected before it is counted, and after the window the check
\* resets the counter to 0 before the next attempt is counted. The counter
\* is 0 after initialize_vault.
C38_CounterWithinMax ==
    [][/\ (Config.enabled /\ Config' = Config /\ Failed <= Config.max_attempts) =>
              Failed' <= Config.max_attempts
       /\ (ret'.op = "initialize_vault" /\ ret'.res = "Ok") => Failed' = 0]_vars

\* With the counter at max_attempts an unlock has been rejected as locked
\* out, and the counter is still max_attempts.
C38_Witness ==
    /\ ret.op = "unlock_vault" /\ ret.res = "InvalidInput"
    /\ Config.enabled /\ Failed = Config.max_attempts /\ Config.max_attempts < MaxFailed

\* C39: export_decrypted_vault leaves the engine Locked when it was Locked
\* and Unlocked when it was Unlocked; with the master passphrase on a Locked
\* vault it returns the export, and with a wrong passphrase it fails with
\* InvalidMasterKey and leaves the engine, the failed-attempt counter and the
\* last-failed timestamp as they were.
C39_ExportKeepsLockState ==
    [][ret'.op = "export_decrypted_vault" =>
          /\ IsUnlocked(crypto') = IsUnlocked(crypto)
          /\ \A p \in Passphrases :
                (ExportVerify(p) /\ IsInitialized) =>
                    IF master = Some(p) THEN ret'.res = "verified"
                    ELSE /\ ret'.res = "InvalidMasterKey"
                         /\ crypto' = crypto /\ Failed' = Failed /\ LastFailed' = LastFailed
          /\ ExportRead => ret'.res = "Ok"]_vars

\* The lockout of the stored counter and timestamp is running at the current time.
LockoutRunning ==
    /\ Config.enabled /\ Failed >= Config.max_attempts
    /\ LastFailed # None /\ now < LockoutEnd(Unwrap(LastFailed), Config)

\* C40: an unlock_vault that fails with InvalidMasterKey while the policy is
\* disabled adds one to the counter and stamps the timestamp with the current
\* time; set_brute_force_config with enabled = true keeps the counter and the
\* timestamp; so when the policy is enabled with at least max_attempts
\* failures recorded while it was disabled and the lockout duration of the
\* last one still running, and for as long as it runs, unlock_vault with
\* any passphrase is rejected as locked-out.
C40_DisabledFailuresCountOnEnable ==
    /\ [][/\ (ret'.res = "InvalidMasterKey" /\ ~Config.enabled /\ \E p \in Passphrases : UnlockVault(p)) =>
                 (Failed' = Failed + 1 /\ LastFailed' = Some(now))
          /\ (Config'.enabled /\ \E c \in BruteForceConfigs : SetBruteForceConfig(c)) =>
                 (Failed' = Failed /\ LastFailed' = LastFailed)
          /\ (~Config.enabled /\ Config'.enabled /\ (\E c \in BruteForceConfigs : SetBruteForceConfig(c))
                 /\ Failed >= Config'.max_attempts /\ LastFailed # None
                 /\ now < LockoutEnd(Unwrap(LastFailed), Config')) => LockoutRunning']_vars
    /\ [](LockoutRunning =>
             \A p \in Passphrases :
                LET out == UnlockOutcome(p) IN
                /\ out.ret.res = "InvalidInput" /\ Unwrap(out.ret.val).is_locked_out
                /\ out.meta = meta /\ out.crypto = crypto)

C40_Witness ==
    /\ ret.op = "unlock_vault" /\ ret.res = "InvalidInput"
    /\ LockoutRunning /\ Failed > Config.max_attempts

====
